---- MODULE Spec2Model ----
(***************************************************************************)
(* A model of the episode renamer (src/rename.py): filename parsing, the   *)
(* preview builder, the rename executor and the undo engine, with the      *)
(* worker pool and the coordinating (Tk) context that drive them.          *)
(*                                                                         *)
(* A file name is a sequence of characters; a character is a one-letter    *)
(* string, or a bracketed token standing for one non-ASCII character.      *)
(* A path is a record [dir, name]: dir is a sequence of components (each   *)
(* a character sequence), name the last component.                         *)
(***************************************************************************)
EXTENDS Integers, Sequences, FiniteSets, TLC

(***************************************************************************)
(* Characters                                                              *)
(***************************************************************************)
DigitChars == <<"0", "1", "2", "3", "4", "5", "6", "7", "8", "9">>

UpperChars == <<"A", "B", "C", "D", "E", "F", "G", "H", "I", "J", "K", "L", "M",
                "N", "O", "P", "Q", "R", "S", "T", "U", "V", "W", "X", "Y", "Z">>

LowerChars == <<"a", "b", "c", "d", "e", "f", "g", "h", "i", "j", "k", "l", "m",
                "n", "o", "p", "q", "r", "s", "t", "u", "v", "w", "x", "y", "z">>

IsDigit(c) == \E i \in 1..10 : DigitChars[i] = c

DigitVal(c) == (CHOOSE i \in 1..10 : DigitChars[i] = c) - 1

IsUpper(c) == \E i \in 1..26 : UpperChars[i] = c

\* str.lower() on one character
LowerChar(c) == IF IsUpper(c) THEN LowerChars[CHOOSE i \in 1..26 : UpperChars[i] = c] ELSE c

\* str.lower()
RECURSIVE Lower(_)
Lower(s) == IF s = <<>> THEN <<>> ELSE <<LowerChar(Head(s))>> \o Lower(Tail(s))

\* int(s) for a non-empty run of digits
RECURSIVE IntOf(_)
IntOf(s) == IF s = <<>> THEN 0 ELSE 10 * IntOf(SubSeq(s, 1, Len(s) - 1)) + DigitVal(s[Len(s)])

\* str(n) for n >= 0
RECURSIVE StrNat(_)
StrNat(n) == IF n < 10 THEN <<DigitChars[n + 1]>> ELSE StrNat(n \div 10) \o <<DigitChars[(n % 10) + 1]>>

\* str(n)
Str(n) == IF n < 0 THEN <<"-">> \o StrNat(-n) ELSE StrNat(n)

RECURSIVE Zeros(_)
Zeros(k) == IF k <= 0 THEN <<>> ELSE <<"0">> \o Zeros(k - 1)

\* format(n, "0<w>"): sign-aware zero padding to width w
FormatInt(n, w) == IF n < 0 THEN <<"-">> \o Zeros(w - 1 - Len(StrNat(-n))) \o StrNat(-n)
                   ELSE Zeros(w - Len(StrNat(n))) \o StrNat(n)

\* str.zfill(w) on a run of digits
ZFill(s, w) == Zeros(w - Len(s)) \o s

(***************************************************************************)
(* Paths (os.path)                                                         *)
(***************************************************************************)
dirname(p) == p.dir

basename(p) == p.name

join(d, n) == [dir |-> d, name |-> n]

\* the position of the extension's dot in a name, 0 when it has none:
\* the last dot, unless only dots precede it
ExtDot(n) == LET dots == {k \in 1..Len(n) : n[k] = "."}
                 last == IF dots = {} THEN 0 ELSE CHOOSE k \in dots : \A j \in dots : j <= k
             IN IF last > 0 /\ (\E j \in 1..(last - 1) : n[j] # ".") THEN last ELSE 0

\* os.path.splitext on a name: <<root, ext>>
splitext(n) == IF ExtDot(n) = 0 THEN <<n, <<>>>>
               ELSE <<SubSeq(n, 1, ExtDot(n) - 1), SubSeq(n, ExtDot(n), Len(n))>>

\* os.path.abspath: the paths of the model are absolute
abspath(p) == p

isabs(p) == TRUE

(***************************************************************************)
(* Characters of the patterns                                              *)
(***************************************************************************)
\* the non-ASCII characters the patterns name, as tokens:
\* U+7B2C (ordinal prefix), U+5B63 (season), U+96C6, U+8BDD, U+56DE (episode)
CJK_DI == "<di>"

CJK_SEASON == "<ji>"

CJK_EPISODE == {"<jii>", "<hua>", "<hui>"}

\* the characters of the model in code point order
CharOrder == <<" ", "(", ")", "+", "-", ".">> \o DigitChars \o UpperChars \o <<"[", "]", "_">>
             \o LowerChars \o <<"<hui>", "<ji>", "<di>", "<hua>", "<jii>">>

\* ord(c)
Ord == [c \in {CharOrder[i] : i \in 1..Len(CharOrder)} |-> CHOOSE i \in 1..Len(CharOrder) : CharOrder[i] = c]

IsLower(c) == \E i \in 1..26 : LowerChars[i] = c

\* \w
IsWord(c) == IsDigit(c) \/ IsUpper(c) \/ IsLower(c) \/ c = "_" \/ c = CJK_DI \/ c = CJK_SEASON \/ c \in CJK_EPISODE

\* [ ._-], which is also the set of str.strip(" ._-") and, on the model's
\* characters, of the split pattern [._\-\s]+
IsSep(c) == c \in {" ", ".", "_", "-"}

\* \s
IsSpace(c) == c = " "

\* the smallest member of a non-empty set of positions: the leftmost match
First(S) == CHOOSE i \in S : \A j \in S : i <= j

Last(S) == CHOOSE i \in S : \A j \in S : j <= i

\* s[i], or no character outside the string
At(s, i) == IF i \in 1..Len(s) THEN s[i] ELSE ""

\* \d{1,cap} at position i, greedy: the number of digits taken (0: no match)
RECURSIVE DigitRun(_, _, _)
DigitRun(s, i, cap) == IF cap = 0 \/ ~IsDigit(At(s, i)) THEN 0 ELSE 1 + DigitRun(s, i + 1, cap - 1)

\* [ ._-]* at position i: the position after the separators
SkipSeps(s, i) == CHOOSE k \in i..(Len(s) + 1) : (\A j \in i..(k - 1) : IsSep(s[j])) /\ ~IsSep(At(s, k))

\* \s* at position i: the position after the spaces
SkipSpaces(s, i) == CHOOSE k \in i..(Len(s) + 1) : (\A j \in i..(k - 1) : IsSpace(s[j])) /\ ~IsSpace(At(s, k))

\* the literal w at position i
HasAt(s, i, w) == i >= 1 /\ i + Len(w) - 1 <= Len(s) /\ SubSeq(s, i, i + Len(w) - 1) = w

\* the lower-case literal w at position i, ignoring case
HasLowerAt(s, i, w) == i >= 1 /\ i + Len(w) - 1 <= Len(s) /\ Lower(SubSeq(s, i, i + Len(w) - 1)) = w

(***************************************************************************)
(* natural_key and the order of sort keys                                  *)
(***************************************************************************)
\* re.split(r'(\d+)', s) with the digit runs as integers and the rest in
\* lower case: text, number, text, ..., text
RECURSIVE natural_key(_)
natural_key(s) ==
    LET a == CHOOSE k \in 0..Len(s) : (\A j \in 1..k : ~IsDigit(s[j])) /\ ~(k < Len(s) /\ ~IsDigit(s[k + 1]))
        b == DigitRun(s, a + 1, Len(s))
    IN IF b = 0 THEN <<Lower(s)>>
       ELSE <<Lower(SubSeq(s, 1, a)), IntOf(SubSeq(s, a + 1, a + b))>>
            \o natural_key(SubSeq(s, a + b + 1, Len(s)))

\* a < b on strings
StrLess(a, b) ==
    LET n == IF Len(a) < Len(b) THEN Len(a) ELSE Len(b)
        d == {i \in 1..n : a[i] # b[i]}
    IN IF d = {} THEN Len(a) < Len(b) ELSE Ord[a[First(d)]] < Ord[b[First(d)]]

\* a < b on the lists natural_key returns
NaturalLess(a, b) ==
    LET n == IF Len(a) < Len(b) THEN Len(a) ELSE Len(b)
        d == {i \in 1..n : a[i] # b[i]}
    IN IF d = {} THEN Len(a) < Len(b)
       ELSE IF First(d) % 2 = 1 THEN StrLess(a[First(d)], b[First(d)])
       ELSE a[First(d)] < b[First(d)]

\* the sort keys of the program are tuples of up to two integers and a
\* natural key: [a, b, nk]
SortKey(a, b, nk) == [a |-> a, b |-> b, nk |-> nk]

KeyLess(x, y) ==
    \/ x.a < y.a
    \/ x.a = y.a /\ x.b < y.b
    \/ x.a = y.a /\ x.b = y.b /\ NaturalLess(x.nk, y.nk)

\* None where the program expects an integer: a number that no parsed or
\* final season or episode number of the model equals
None == -999999

\* the keys the program sorts by, on a file with its parse result and
\* natural key: lines 584 and 586 ("name"), 589-593 ("guess"), 625
\* ("episode") and 648 ("value")
KeyOf(kind, x) ==
    CASE kind = "name" -> SortKey(0, 0, x.nk)
      [] kind = "guess" -> IF x.episode # None THEN SortKey(0, x.episode, x.nk) ELSE SortKey(1, 0, x.nk)
      [] kind = "episode" -> SortKey(IF x.episode # None THEN x.episode ELSE 999999, 0, x.nk)
      [] kind = "value" -> SortKey(IntOf(splitext(basename(x.p))[1]), 0, <<>>)

\* x goes after the items of the sorted list that are not greater
Insert(items, x, kind) ==
    LET pos == Cardinality({m \in 1..Len(items) : ~KeyLess(KeyOf(kind, x), KeyOf(kind, items[m]))})
    IN SubSeq(items, 1, pos) \o <<x>> \o SubSeq(items, pos + 1, Len(items))

\* sorted(items, key): stable
RECURSIVE sorted(_, _)
sorted(items, kind) ==
    IF items = <<>> THEN <<>>
    ELSE Insert(sorted(SubSeq(items, 1, Len(items) - 1), kind), items[Len(items)], kind)

(***************************************************************************)
(* parse_episode_info                                                      *)
(***************************************************************************)
VIDEO_EXTS == {<<".", "m", "p", "4">>, <<".", "m", "k", "v">>, <<".", "a", "v", "i">>,
               <<".", "m", "o", "v">>, <<".", "f", "l", "v">>, <<".", "w", "m", "v">>,
               <<".", "t", "s">>, <<".", "m", "4", "v">>}

is_video(n) == Lower(splitext(n)[2]) \in VIDEO_EXTS

STOP_TOKENS ==
    {<<"1", "0", "8", "0", "p">>,
     <<"1", "0", "b", "i", "t">>,
     <<"2", "1", "6", "0", "p">>,
     <<"4", "8", "0", "p">>,
     <<"7", "2", "0", "p">>,
     <<"8", "b", "i", "t">>,
     <<"a", "a", "c">>,
     <<"a", "t", "m", "o", "s">>,
     <<"a", "v", "c">>,
     <<"b", "d", "r", "i", "p">>,
     <<"b", "l", "u", "r", "a", "y">>,
     <<"b", "r", "r", "i", "p">>,
     <<"d", "d", "+">>,
     <<"d", "d", "p">>,
     <<"d", "d", "p", "5", ".", "1">>,
     <<"d", "v", "d", "r", "i", "p">>,
     <<"e", "x", "t", "e", "n", "d", "e", "d">>,
     <<"h", "2", "6", "4">>,
     <<"h", "2", "6", "5">>,
     <<"h", "d", "r", "i", "p">>,
     <<"h", "d", "t", "v">>,
     <<"h", "e", "v", "c">>,
     <<"p", "r", "o", "p", "e", "r">>,
     <<"r", "e", "p", "a", "c", "k">>,
     <<"u", "n", "r", "a", "t", "e", "d">>,
     <<"w", "e", "b">>,
     <<"w", "e", "b", "-", "d", "l">>,
     <<"w", "e", "b", "-", "d", "l", "2">>,
     <<"w", "e", "b", "-", "d", "l", "r", "i", "p">>,
     <<"w", "e", "b", "r", "i", "p">>,
     <<"x", "2", "6", "4">>,
     <<"x", "2", "6", "5">>}

\* str.strip(" ._-")
Strip(s) ==
    LET keep == {i \in 1..Len(s) : ~IsSep(s[i])}
    IN IF keep = {} THEN <<>> ELSE SubSeq(s, First(keep), Last(keep))

\* re.split(r'[._\-\s]+', s), the empty tokens left out
RECURSIVE Split(_)
Split(s) ==
    LET i == SkipSeps(s, 1)
        j == CHOOSE k \in i..(Len(s) + 1) : (\A m \in i..(k - 1) : ~IsSep(s[m])) /\ (k > Len(s) \/ IsSep(s[k]))
    IN IF i > Len(s) THEN <<>> ELSE <<SubSeq(s, i, j - 1)>> \o Split(SubSeq(s, j, Len(s)))

\* \d{3,4}p
IsResolution(tok) == Len(tok) \in {4, 5} /\ tok[Len(tok)] = "p" /\ \A i \in 1..(Len(tok) - 1) : IsDigit(tok[i])

\* \[.*\]|\(.*\)
IsBracketed(tok) ==
    /\ Len(tok) >= 2
    /\ \/ tok[1] = "[" /\ tok[Len(tok)] = "]"
       \/ tok[1] = "(" /\ tok[Len(tok)] = ")"

\* the loop over the tokens: stop at a technical tag, skip a bracketed token
RECURSIVE TitleTokens(_)
TitleTokens(toks) ==
    IF toks = <<>> THEN <<>>
    ELSE IF Lower(Head(toks)) \in STOP_TOKENS \/ IsResolution(Lower(Head(toks))) THEN <<>>
    ELSE IF IsBracketed(Head(toks)) THEN TitleTokens(Tail(toks))
    ELSE <<Head(toks)>> \o TitleTokens(Tail(toks))

\* ".".join(tokens)
RECURSIVE JoinDots(_)
JoinDots(toks) ==
    IF toks = <<>> THEN <<>>
    ELSE IF Len(toks) = 1 THEN toks[1]
    ELSE toks[1] \o <<".">> \o JoinDots(Tail(toks))

\* _extract_after_pos(s, pos), pos the number of characters before the
\* remainder; the empty string stands for None
extract_after_pos(s, pos) == JoinDots(TitleTokens(Split(Strip(SubSeq(s, pos + 1, Len(s))))))

\* a match: the numbers of its groups and m.end()
NoMatch == [ok |-> FALSE, season |-> None, episode |-> None, end |-> 0]

Match(season, episode, end) == [ok |-> TRUE, season |-> season, episode |-> episode, end |-> end]

\* rule 1 read without its optional separator: [sS](\d{1,2})[eE](\d{1,3})
MatchSxxEyy_NoSeparator(name, i) ==
    LET n1 == DigitRun(name, i + 1, 2)
        j == i + 1 + n1
        n2 == DigitRun(name, j + 1, 3)
    IN IF At(name, i) \in {"s", "S"} /\ n1 >= 1 /\ At(name, j) \in {"e", "E"} /\ n2 >= 1
       THEN Match(IntOf(SubSeq(name, i + 1, i + n1)), IntOf(SubSeq(name, j + 1, j + n2)), j + n2)
       ELSE NoMatch

\* rule 1 at position i: [sS](\d{1,2})[ ._-]?[eE](\d{1,3})
MatchSxxEyy(name, i) ==
    LET n1 == DigitRun(name, i + 1, 2)
        j == IF IsSep(At(name, i + 1 + n1)) THEN i + 2 + n1 ELSE i + 1 + n1
        n2 == DigitRun(name, j + 1, 3)
    IN IF At(name, i) \in {"s", "S"} /\ n1 >= 1 /\ At(name, j) \in {"e", "E"} /\ n2 >= 1
       THEN Match(IntOf(SubSeq(name, i + 1, i + n1)), IntOf(SubSeq(name, j + 1, j + n2)), j + n2)
       ELSE NoMatch

\* rule 2 at position i: (\d{1,2})[xX](\d{1,3})
MatchNxM(name, i) ==
    LET n1 == IF IsDigit(At(name, i + 1)) THEN 2 ELSE 1
        n2 == DigitRun(name, i + n1 + 1, 3)
    IN IF IsDigit(At(name, i)) /\ At(name, i + n1) \in {"x", "X"} /\ n2 >= 1
       THEN Match(IntOf(SubSeq(name, i, i + n1 - 1)), IntOf(SubSeq(name, i + n1 + 1, i + n1 + n2)), i + n1 + n2)
       ELSE NoMatch

\* rule 3 at position i, ignoring case:
\* [sS]eason[ ._-]*?(\d{1,2}).*?[eE]p(?:isode)?[ ._-]*?(\d{1,3})
MatchSeasonEp(name, i) ==
    LET k == SkipSeps(name, i + 6)
        n1 == DigitRun(name, k, 2)
        q(m) == SkipSeps(name, IF HasLowerAt(name, m + 2, <<"i", "s", "o", "d", "e">>) THEN m + 7 ELSE m + 2)
        hits == {m \in (k + n1)..Len(name) : HasLowerAt(name, m, <<"e", "p">>) /\ DigitRun(name, q(m), 3) >= 1}
        d == q(First(hits))
        n2 == DigitRun(name, d, 3)
    IN IF HasLowerAt(name, i, <<"s", "e", "a", "s", "o", "n">>) /\ n1 >= 1 /\ hits # {}
       THEN Match(IntOf(SubSeq(name, k, k + n1 - 1)), IntOf(SubSeq(name, d, d + n2 - 1)), d + n2 - 1)
       ELSE NoMatch

\* rules 4 and 5 at position i: the ordinal prefix, \s*, (\d{1,cap}), \s*, one
\* of the closing characters; the number is reported as the episode
MatchOrdinal(name, i, cap, closing) ==
    LET k == SkipSpaces(name, i + 1)
        n == DigitRun(name, k, cap)
        q == SkipSpaces(name, k + n)
    IN IF At(name, i) = CJK_DI /\ n >= 1 /\ At(name, q) \in closing
       THEN Match(None, IntOf(SubSeq(name, k, k + n - 1)), q)
       ELSE NoMatch

\* rule 6 at position i: [eE]pisode[ ._-]*?(\d{1,3})
MatchEpisode(name, i) ==
    LET k == SkipSeps(name, i + 7)
        n == DigitRun(name, k, 3)
    IN IF At(name, i) \in {"e", "E"} /\ HasAt(name, i + 1, <<"p", "i", "s", "o", "d", "e">>) /\ n >= 1
       THEN Match(None, IntOf(SubSeq(name, k, k + n - 1)), k + n - 1)
       ELSE NoMatch

\* rule 7 read as \b(\d{2,3})\b: a single digit is no episode number
MatchStandalone_TwoDigits(name, i) ==
    LET n == DigitRun(name, i, Len(name))
    IN IF IsDigit(At(name, i)) /\ ~IsWord(At(name, i - 1)) /\ n \in 2..3 /\ ~IsWord(At(name, i + n))
       THEN Match(None, IntOf(SubSeq(name, i, i + n - 1)), i + n - 1)
       ELSE NoMatch

\* rule 7 at position i: \b(\d{1,3})\b
MatchStandalone(name, i) ==
    LET n == DigitRun(name, i, Len(name))
    IN IF IsDigit(At(name, i)) /\ ~IsWord(At(name, i - 1)) /\ n <= 3 /\ ~IsWord(At(name, i + n))
       THEN Match(None, IntOf(SubSeq(name, i, i + n - 1)), i + n - 1)
       ELSE NoMatch

\* the rules in the order the function tries them: what rule matches at i
MatchAt(rule, name, i) ==
    CASE rule = 1 -> MatchSxxEyy(name, i)
      [] rule = 2 -> MatchNxM(name, i)
      [] rule = 3 -> MatchSeasonEp(name, i)
      [] rule = 4 -> MatchOrdinal(name, i, 2, {CJK_SEASON})
      [] rule = 5 -> MatchOrdinal(name, i, 3, CJK_EPISODE)
      [] rule = 6 -> MatchEpisode(name, i)
      [] rule = 7 -> MatchStandalone(name, i)

\* re.search: the leftmost match of the rule at or after position i
RECURSIVE search(_, _, _)
OrLater(m, rule, name, i) == IF m.ok THEN m ELSE search(rule, name, i + 1)

search(rule, name, i) == IF i > Len(name) THEN NoMatch ELSE OrLater(MatchAt(rule, name, i), rule, name, i)

\* lines 134-141: rule 4 gave the season; the episode is what rule 5's
\* pattern finds, and without it the result has no episode and no title
SeasonThenEpisode(season, m2, name) ==
    IF m2.ok THEN Match(season, m2.episode, m2.end) ELSE Match(season, None, Len(name))

\* the first rule that matches decides
RECURSIVE Cascade(_, _)
FirstOf(m, rule, name) ==
    IF ~m.ok THEN Cascade(name, rule + 1)
    ELSE IF rule = 4 THEN SeasonThenEpisode(m.episode, search(5, name, 1), name)
    ELSE m

Cascade(name, rule) == IF rule > 7 THEN NoMatch ELSE FirstOf(search(rule, name, 1), rule, name)

\* the tuple parse_episode_info returns; extra = <<>> stands for None
Parsed(season, episode, extra) == [season |-> season, episode |-> episode, extra |-> extra]

Result(name, m) ==
    IF m.ok THEN Parsed(m.season, m.episode, extract_after_pos(name, m.end))
    ELSE Parsed(None, None, <<>>)

parse_episode_info(filename) == Result(splitext(filename)[1], Cascade(splitext(filename)[1], 1))

(***************************************************************************)
(* Preview: conflict detection and the rows of the tree (lines 684-730)    *)
(***************************************************************************)
ConflictKey_CaseSensitive(e) == <<dirname(e.oldabs), e.newname>>

\* line 689: key = (parent, newname.lower())
ConflictKey(e) == <<dirname(e.oldabs), Lower(e.newname)>>

\* lines 685-693: the keys seen a second time
conflict_set(pl) == {ConflictKey(pl[i]) : i \in {x \in 1..Len(pl) : \E j \in 1..(x - 1) : ConflictKey(pl[j]) = ConflictKey(pl[x])}}

\* the name is compared before the conflict set is consulted
TagFor_UnchangedFirst(e, conflicts) ==
    IF e.oldname = e.newname THEN "unchanged"
    ELSE IF ConflictKey(e) \in conflicts THEN "conflict"
    ELSE ""

\* lines 704-712
TagFor(e, conflicts) ==
    IF ConflictKey(e) \in conflicts THEN "conflict"
    ELSE IF e.oldname = e.newname THEN "unchanged"
    ELSE ""

TagOf(pl, i) == TagFor(pl[i], conflict_set(pl))

\* lines 703-730: one row per entry, in the order of the list
RECURSIVE Rows(_, _)
Rows(pl, conflicts) ==
    IF pl = <<>> THEN <<>>
    ELSE Append(Rows(SubSeq(pl, 1, Len(pl) - 1), conflicts),
                [values |-> <<pl[Len(pl)].oldname, pl[Len(pl)].newname>>, tag |-> TagFor(pl[Len(pl)], conflicts)])

TreeRows(pl) == Rows(pl, conflict_set(pl))

\* line 645: one entry of the preview list
Entry(p, newname) == [oldabs |-> p, newabs |-> join(dirname(p), newname), oldname |-> basename(p), newname |-> newname]

(***************************************************************************)
(* format_template and the padding fix                                     *)
(***************************************************************************)
Field(kind, width) == [kind |-> kind, text |-> <<>>, width |-> width]

Literal(text) == [kind |-> "literal", text |-> text, width |-> 0]

\* DEFAULT_CONFIG["template"], "{title}.S{season:02}E{episode:03}.{ext}",
\* as its literal texts and replacement fields
DEFAULT_TEMPLATE ==
    <<Field("title", 0), Literal(<<".", "S">>), Field("season", 2), Literal(<<"E">>),
      Field("episode", 3), Literal(<<".">>), Field("ext", 0)>>

\* the template and title fields hold their defaults
var_template == DEFAULT_TEMPLATE

VARIABLE var_title           \* self.var_title: the text of the title field

\* str.lstrip(".")
LStripDots(s) == SubSeq(s, CHOOSE k \in 1..(Len(s) + 1) : (\A j \in 1..(k - 1) : s[j] = ".") /\ At(s, k) # ".", Len(s))

\* one replacement field of str.format
FormatField(f, title, season, episode, ext, orig) ==
    CASE f.kind = "literal" -> f.text
      [] f.kind = "title" -> title
      [] f.kind = "season" -> FormatInt(IF season = None THEN 0 ELSE season, f.width)
      [] f.kind \in {"episode", "ep"} -> FormatInt(IF episode = None THEN 0 ELSE episode, f.width)
      [] f.kind = "ext" -> LStripDots(ext)
      [] f.kind = "orig" -> orig

RECURSIVE format_template(_, _, _, _, _, _)
format_template(template, title, season, episode, ext, orig) ==
    IF template = <<>> THEN <<>>
    ELSE FormatField(Head(template), title, season, episode, ext, orig)
         \o format_template(Tail(template), title, season, episode, ext, orig)

\* str.replace(old, new, 1)
ReplaceFirst(s, old, new) ==
    LET hits == {i \in 1..Len(s) : HasAt(s, i, old)}
    IN IF hits = {} THEN s
       ELSE SubSeq(s, 1, First(hits) - 1) \o new \o SubSeq(s, First(hits) + Len(old), Len(s))

\* _apply_padding_to_template: the digits after the first [eE] that a digit
\* follows are zero-filled to pad, at the first place that digit string occurs
apply_padding_to_template(newbase, pad) ==
    LET hits == {i \in 1..Len(newbase) : newbase[i] \in {"e", "E"} /\ IsDigit(At(newbase, i + 1))}
        i == First(hits)
        num == SubSeq(newbase, i + 1, i + DigitRun(newbase, i + 1, Len(newbase)))
    IN IF hits # {} /\ Len(num) < pad THEN ReplaceFirst(newbase, num, ZFill(num, pad)) ELSE newbase

IllegalChars == {"\\", "/", ":", "*", "?", "\"", "<", ">", "|"}

IsLegal(c) == c \notin IllegalChars

\* str.strip('. ')
StripDotsSpaces(s) ==
    LET keep == {i \in 1..Len(s) : s[i] \notin {".", " "}}
    IN IF keep = {} THEN <<>> ELSE SubSeq(s, First(keep), Last(keep))

\* re.sub(r'[\\/:*?"<>|]+', '', extra).strip('. ')
safe_extra(extra) == StripDotsSpaces(SelectSeq(extra, IsLegal))

\* the episode title goes before the extension when it is requested and present
WithEpisodeTitle(base_new, extra, include_title) ==
    IF include_title /\ extra # <<>> /\ safe_extra(extra) # <<>>
    THEN splitext(base_new)[1] \o <<".">> \o safe_extra(extra) \o splitext(base_new)[2]
    ELSE base_new

(***************************************************************************)
(* The settings fields                                                     *)
(***************************************************************************)
\* str.isdigit()
isdigit(s) == s # <<>> /\ \A i \in 1..Len(s) : IsDigit(s[i])

\* IntVar.get() on the text of the field (digits, a sign or nothing here):
\* TclError unless it is an integer
IntVarGet(text) ==
    IF isdigit(text) THEN [ok |-> TRUE, val |-> IntOf(text)]
    ELSE IF text # <<>> /\ Head(text) = "-" /\ isdigit(Tail(text)) THEN [ok |-> TRUE, val |-> 0 - IntOf(Tail(text))]
    ELSE [ok |-> FALSE, val |-> 0]

\* str.strip()
StripSpaces(s) ==
    LET keep == {i \in 1..Len(s) : ~IsSpace(s[i])}
    IN IF keep = {} THEN <<>> ELSE SubSeq(s, First(keep), Last(keep))

\* season_val: the season field when it is a number, else None
season_val(text) == IF isdigit(StripSpaces(text)) THEN IntOf(StripSpaces(text)) ELSE None

\* title: the title field, "Series" when it is blank
title_or_default(text) == IF StripSpaces(text) = <<>> THEN <<"S", "e", "r", "i", "e", "s">> ELSE StripSpaces(text)

(***************************************************************************)
(* preview: ordering, strategy and numbering                               *)
(***************************************************************************)
\* a file with what parse_episode_info and natural_key return for it
InfoOf(p, x, nk) == [p |-> p, season |-> x.season, episode |-> x.episode, extra |-> x.extra, nk |-> nk]

ParseFile(p) == InfoOf(p, parse_episode_info(basename(p)), natural_key(basename(p)))

MaxFillers == 8

DirD == << <<"d">> >>

DirE == << <<"e">> >>

\* names the parser reads in different ways; the walk finds them in this order
Catalogue ==
    <<join(DirD, <<"a", ".", "S", "0", "1", "E", "0", "1", ".", "m", "k", "v">>),
      join(DirD, <<"b", ".", "s", "1", "e", "1", ".", "M", "K", "V">>),
      join(DirD, <<"2", "x", "0", "5", ".", "P", "i", "l", "o", "t", ".", "7", "2", "0", "p", ".", "m", "k", "v">>),
      join(DirD, <<"7", ".", "m", "k", "v">>),
      join(DirE, <<"a", ".", "S", "0", "1", "E", "0", "1", ".", "m", "k", "v">>),
      join(DirD, <<"S", "e", "r", "i", "e", "s", ".", "S", "0", "1", "E", "0", "0", "1", ".", "m", "k", "v">>),
      join(DirD, <<"1", "2", ".", "m", "k", "v">>)>>

\* names without an episode number: fa.mkv, fb.mkv, ...
Filler(i) == join(DirD, <<"f", LowerChars[i], ".", "m", "k", "v">>)

\* the two functions are pure: what they return for the names above is
\* computed once
KnownFiles == {Catalogue[i] : i \in 1..Len(Catalogue)} \cup {Filler(i) : i \in 1..(MaxFillers + 1)}

KnownInfo == [p \in KnownFiles |-> ParseFile(p)]

FileInfo(p) == IF p \in KnownFiles THEN KnownInfo[p] ELSE ParseFile(p)

RECURSIVE FileInfos(_)
FileInfos(files) == IF files = <<>> THEN <<>> ELSE <<FileInfo(Head(files))>> \o FileInfos(Tail(files))

\* the sort method is not consulted
sort_files_ByName(infos, method) == sorted(infos, "name")

\* lines 581-594: the files in the order of the sort method
sort_files(infos, method) ==
    IF method \in {"name", "numeric"} THEN sorted(infos, "name")
    ELSE IF method = "guess" THEN sorted(infos, "guess")
    ELSE infos

\* lines 597-600: parsed, (p, s_auto, e_auto, extra_auto) of every file in
\* the sorted order
parse_all(files, method) == sort_files(FileInfos(files), method)

Threshold_Thirds(n) == IF n > 6 THEN (n + 2) \div 3 ELSE 2

\* max(2, len(files)//3)
Threshold(n) == IF n \div 3 > 2 THEN n \div 3 ELSE 2

parsed_es(parsed) == {i \in 1..Len(parsed) : parsed[i].episode # None}

use_parsed_numbers(parsed) == Cardinality(parsed_es(parsed)) >= Threshold(Len(parsed))

\* re.fullmatch(r'\d{1,3}', name_no_ext)
IsPureNumeric(p) == Len(splitext(basename(p))[1]) \in 1..3 /\ isdigit(splitext(basename(p))[1])

IsPureNumericItem(x) == IsPureNumeric(x.p)

IsOtherItem(x) == ~IsPureNumeric(x.p)

pure_numeric_files(parsed) == SelectSeq(parsed, IsPureNumericItem)

\* a file with its final season and episode number and the title to append
Numbered(p, season, ep, extra) == [p |-> p, season |-> season, ep |-> ep, extra |-> extra]

\* the season of a file: the season field overrides the parsed season, and
\* 1 stands in when there is neither (lines 628, 631-632, 671)
SeasonFinal(season, s_auto) == IF season # None THEN season ELSE IF s_auto # None THEN s_auto ELSE 1

\* the loop of lines 626-645 over parsed_sorted; the index of the last item
\* is the length of the list
RECURSIVE TrustLoop(_, _, _)
TrustLoop(items, season, offset) ==
    IF items = <<>> THEN <<>>
    ELSE LET x == items[Len(items)]
         IN Append(TrustLoop(SubSeq(items, 1, Len(items) - 1), season, offset),
                   Numbered(x.p, SeasonFinal(season, x.season),
                            (IF x.episode # None THEN x.episode ELSE Len(items)) + offset,
                            x.extra))

\* trust-parsed-numbers: lines 623-645
TrustNumbering(parsed, season, offset) == TrustLoop(sorted(parsed, "episode"), season, offset)

\* the loop of lines 649-656 over files_sorted_num
RECURSIVE NumericLoop(_, _, _)
NumericLoop(items, season, offset) ==
    IF items = <<>> THEN <<>>
    ELSE Append(NumericLoop(SubSeq(items, 1, Len(items) - 1), season, offset),
                Numbered(items[Len(items)].p, SeasonFinal(season, None), Len(items) + offset, <<>>))

\* line 662: the number of the j-th remaining file after m pure-numeric ones
OtherEpisode(m, j, offset) == m + 1 + offset

\* the loop of lines 659-667 over other_files, after m pure-numeric files
RECURSIVE OtherLoop(_, _, _, _)
OtherLoop(items, m, season, offset) ==
    IF items = <<>> THEN <<>>
    ELSE Append(OtherLoop(SubSeq(items, 1, Len(items) - 1), m, season, offset),
                Numbered(items[Len(items)].p, SeasonFinal(season, None),
                         OtherEpisode(m, Len(items), offset), <<>>))

\* pure-numeric-sequence: lines 646-667
NumericNumbering(parsed, season, offset) ==
    NumericLoop(sorted(pure_numeric_files(parsed), "value"), season, offset)
    \o OtherLoop(SelectSeq(parsed, IsOtherItem), Len(pure_numeric_files(parsed)), season, offset)

FallbackEpisode_OffsetOnPosition(e_auto, idx, offset) == IF e_auto # None THEN e_auto ELSE idx + offset

\* line 672: ep = (e_auto if e_auto is not None else idx) + offset
FallbackEpisode(e_auto, idx, offset) == (IF e_auto # None THEN e_auto ELSE idx) + offset

\* sequential-fallback: the loop of lines 670-682 over parsed
RECURSIVE FallbackNumbering(_, _, _)
FallbackNumbering(parsed, season, offset) ==
    IF parsed = <<>> THEN <<>>
    ELSE LET x == parsed[Len(parsed)]
         IN Append(FallbackNumbering(SubSeq(parsed, 1, Len(parsed) - 1), season, offset),
                   Numbered(x.p, SeasonFinal(season, x.season),
                            FallbackEpisode(x.episode, Len(parsed), offset), x.extra))

\* the strategy the batch selects: lines 605, 623, 646, 668
Strategy(parsed) ==
    IF use_parsed_numbers(parsed) THEN "trust"
    ELSE IF pure_numeric_files(parsed) # <<>> /\ Len(pure_numeric_files(parsed)) >= Threshold(Len(parsed)) THEN "numeric"
    ELSE "fallback"

Numbering(parsed, season, offset) ==
    CASE Strategy(parsed) = "trust" -> TrustNumbering(parsed, season, offset)
      [] Strategy(parsed) = "numeric" -> NumericNumbering(parsed, season, offset)
      [] OTHER -> FallbackNumbering(parsed, season, offset)

\* the target name of a numbered file
NewName(x, pad, include_title) ==
    apply_padding_to_template(
        WithEpisodeTitle(format_template(var_template, title_or_default(var_title), x.season, x.ep,
                                         splitext(basename(x.p))[2], basename(x.p)),
                         x.extra, include_title),
        pad)

\* self.preview_list.append(...) for every numbered file
RECURSIVE Entries(_, _, _)
Entries(numbered, pad, include_title) ==
    IF numbered = <<>> THEN <<>>
    ELSE Append(Entries(SubSeq(numbered, 1, Len(numbered) - 1), pad, include_title),
                Entry(numbered[Len(numbered)].p, NewName(numbered[Len(numbered)], pad, include_title)))

\* the preview list of the parsed batch under the given settings
PreviewEntries(parsed, season_text, offset, pad, include_title) ==
    Entries(Numbering(parsed, season_val(season_text), offset), pad, include_title)

(***************************************************************************)
(* State                                                                   *)
(***************************************************************************)
VARIABLES
    disk,                       \* the filesystem: existing file path |-> content
    logs,                       \* the logs/ directory: log file |-> csv rows
    clock,                      \* wall-clock time in seconds (time.strftime)
    folders,                    \* self.folders
    file_list,                  \* self.file_list
    preview_list,               \* self.preview_list
    tree,                       \* rows of self.tree: values and tag
    strategy,                   \* history: the numbering strategy of the last preview pass
    var_recursive,
    var_pad,
    var_offset,
    var_season,
    var_sort_method,
    var_include_episode_title,
    var_dryrun,
    var_conflict_suffix,
    var_move_season_folder,
    pool,                       \* EXECUTOR: submitted tasks, oldest first
    afterq,                     \* root.after(0, ...): callbacks for the coordinating context
    debounce,                   \* a debounced preview is pending (_debounce_after_id)
    preview_pc,                 \* where the coordinating context stands in preview(): "idle" outside it, "fill" between the clear and the rows
    nreq,                       \* history: how often each operation was requested (dry: rename
                                \* requests made with dry-run on; edit: changes of the settings)
    external,                   \* history: the environment changed the disk
    faults                      \* history: a move raised although its source exists

envVars == <<disk, logs, clock>>

dataVars == <<folders, file_list, preview_list, tree, strategy>>

tkVars == <<var_recursive, var_pad, var_offset, var_season, var_sort_method,
            var_title, var_include_episode_title, var_dryrun, var_conflict_suffix,
            var_move_season_folder>>

schedVars == <<pool, afterq, debounce, preview_pc>>

histVars == <<nreq, external, faults>>

vars == <<envVars, dataVars, tkVars, schedVars, histVars>>

MAX_WORKERS == 4

(***************************************************************************)
(* Files                                                                   *)
(***************************************************************************)
exists(d, p) == p \in DOMAIN d

\* d with the file at path p holding content c
WithFile(d, p, c) == [q \in DOMAIN d \cup {p} |-> IF q = p THEN c ELSE d[q]]

WithoutFile(d, p) == [q \in DOMAIN d \ {p} |-> d[q]]

\* shutil.move(src, dst) of an existing file: os.rename, which replaces a
\* file at dst and does nothing when src and dst are the same path
Moved(d, src, dst) == IF src = dst THEN d ELSE WithFile(WithoutFile(d, src), dst, d[src])

\* open(f, "w") and csv.writer: the header row, then one row per record
WriteCsv(l, f, header, rows) == [g \in DOMAIN l \cup {f} |-> IF g = f THEN <<header>> \o rows ELSE l[g]]

\* csv.reader after next(reader, None): the rows after the first
ReadCsvRows(l, f) == IF l[f] = <<>> THEN <<>> ELSE Tail(l[f])

(***************************************************************************)
(* The worker pool                                                         *)
(***************************************************************************)
Running(k) == pool[k].pc # "queued"

\* a queued task starts when it is the oldest queued one and a worker is free
CanStart(k) ==
    /\ k \in DOMAIN pool
    /\ pool[k].pc = "queued"
    /\ \A j \in 1..(k - 1) : Running(j)
    /\ Cardinality({j \in DOMAIN pool : Running(j)}) < MAX_WORKERS

Without(seq, k) == SubSeq(seq, 1, k - 1) \o SubSeq(seq, k + 1, Len(seq))

(***************************************************************************)
(* Rename Executor: _execute_task                                          *)
(***************************************************************************)
ExecuteTask == [kind |-> "execute", pc |-> "queued", log_file |-> <<>>, conflict_suffix |-> <<>>,
                items |-> <<>>, i |-> 1, log_rows |-> <<>>, processed |-> 0]

\* re.search(r'[sS](\d{1,2})', newname): the digits of the first match, <<>> when none
SeasonMatch(n) ==
    LET starts == {i \in 1..(Len(n) - 1) : n[i] \in {"s", "S"} /\ IsDigit(n[i + 1])}
        i == CHOOSE x \in starts : \A y \in starts : x <= y
    IN IF starts = {} THEN <<>>
       ELSE IF i + 2 <= Len(n) /\ IsDigit(n[i + 2]) THEN SubSeq(n, i + 1, i + 2)
       ELSE SubSeq(n, i + 1, i + 1)

\* int(self.var_season.get() or 1): the season field holds digits, text or nothing;
\* ok is FALSE where int() raises ValueError
SeasonOrOne(s) == IF s = <<>> THEN [ok |-> TRUE, val |-> 1]
                  ELSE IF \A i \in 1..Len(s) : IsDigit(s[i]) THEN [ok |-> TRUE, val |-> IntOf(s)]
                  ELSE [ok |-> FALSE, val |-> 0]

\* lines 781-793: the destination before conflict resolution; ok is FALSE where
\* line 784 raises
ExecDestination(e, season_folder, season) ==
    IF season_folder
    THEN LET m == SeasonMatch(e.newname)
             season_to_use == IF m # <<>> THEN [ok |-> TRUE, val |-> IntOf(m)] ELSE SeasonOrOne(season)
         IN [ok |-> season_to_use.ok,
             path |-> join(Append(dirname(e.oldabs), <<"S">> \o FormatInt(season_to_use.val, 2)), e.newname)]
    ELSE [ok |-> TRUE, path |-> e.newabs]

\* the paths the conflict loop tries, in order: base+suffix+ext, then base+suffix+i+ext
DupPath(target, suffix, i) ==
    LET base == splitext(target.name)[1]
        ext == splitext(target.name)[2]
    IN join(target.dir, base \o suffix \o (IF i = 0 THEN <<>> ELSE Str(i)) \o ext)

\* lines 799-801: while os.path.exists(t)
RECURSIVE ProbeFrom(_, _, _, _)
ProbeFrom(d, target, suffix, i) ==
    IF exists(d, DupPath(target, suffix, i)) THEN ProbeFrom(d, target, suffix, i + 1)
    ELSE DupPath(target, suffix, i)

\* the first name tried is taken without looking whether it exists
ResolveConflict_NoLoop(d, target, suffix) ==
    IF exists(d, target) THEN DupPath(target, suffix, 0) ELSE target

\* lines 795-802
ResolveConflict(d, target, suffix) ==
    IF exists(d, target) THEN ProbeFrom(d, target, suffix, 0) ELSE target

\* lines 767-779: the task starts on a worker, names its log, reads the suffix and
\* copies the preview list
ExecBegin(k) ==
    /\ CanStart(k)
    /\ pool[k].kind = "execute"
    /\ pool' = [pool EXCEPT ![k] = [@ EXCEPT !.pc = "loop",
                                              !.log_file = [kind |-> "log", ts |-> clock],
                                              !.conflict_suffix = var_conflict_suffix,
                                              !.items = preview_list]]
    /\ UNCHANGED <<envVars, dataVars, tkVars, afterq, debounce, preview_pc, histVars>>

\* lines 805-806: after the move has returned, the row is appended and counted
AfterMove(t, row) == [t EXCEPT !.i = @ + 1, !.log_rows = Append(@, row), !.processed = @ + 1]

\* the row is appended before the move is tried
AfterFailure_RowLogged(t, row) == [t EXCEPT !.i = @ + 1, !.log_rows = Append(@, row)]

\* lines 807-809: the exception handler goes on with the next entry
AfterFailure(t, row) == [t EXCEPT !.i = @ + 1]

\* lines 779-809: one iteration of the loop: the move and its log row, or the
\* exception handler (line 784 raised, the source is gone, or the move raised)
ExecEntry(k) ==
    /\ k \in DOMAIN pool
    /\ pool[k].kind = "execute"
    /\ pool[k].pc = "loop"
    /\ pool[k].i <= Len(pool[k].items)
    /\ LET t == pool[k]
           e == t.items[t.i]
           dest == ExecDestination(e, var_move_season_folder, var_season)
           target == ResolveConflict(disk, dest.path, t.conflict_suffix)
       IN \/ /\ dest.ok
             /\ exists(disk, e.oldabs)
             /\ disk' = Moved(disk, e.oldabs, target)
             /\ pool' = [pool EXCEPT ![k] = AfterMove(t, <<e.oldabs, target>>)]
             /\ UNCHANGED faults
          \/ /\ ~dest.ok \/ ~exists(disk, e.oldabs)
             /\ pool' = [pool EXCEPT ![k] = AfterFailure(t, <<e.oldabs, target>>)]
             /\ UNCHANGED <<disk, faults>>
          \/ /\ dest.ok
             /\ exists(disk, e.oldabs)
             /\ ~faults
             /\ faults' = TRUE
             /\ pool' = [pool EXCEPT ![k] = AfterFailure(t, <<e.oldabs, target>>)]
             /\ UNCHANGED disk
    /\ UNCHANGED <<logs, clock, dataVars, tkVars, afterq, debounce, preview_pc, nreq, external>>

\* lines 811-817: the log is written and the completion callback posted
ExecWriteLog(k) ==
    /\ k \in DOMAIN pool
    /\ pool[k].kind = "execute"
    /\ pool[k].pc = "loop"
    /\ pool[k].i > Len(pool[k].items)
    /\ logs' = WriteCsv(logs, pool[k].log_file, <<"old", "new">>, pool[k].log_rows)
    /\ afterq' = Append(afterq, [cb |-> "_on_execute_done", count |-> pool[k].processed,
                                 log |-> pool[k].log_file])
    /\ pool' = Without(pool, k)
    /\ UNCHANGED <<disk, clock, dataVars, tkVars, debounce, preview_pc, histVars>>

(***************************************************************************)
(* Undo Engine: undo_via_log, _undo_task                                   *)
(***************************************************************************)
UndoTask(csv_path) == [kind |-> "undo", pc |-> "queued", csv_path |-> csv_path, rollback_log |-> <<>>,
                       rows |-> <<>>, i |-> 1, rows_out |-> <<>>, done |-> 0]

\* lines 827-834: the user picks a csv file of the logs directory and confirms
undo_via_log(csv_path) ==
    /\ csv_path \in DOMAIN logs
    /\ pool' = Append(pool, UndoTask(csv_path))
    /\ nreq' = [nreq EXCEPT !.undo = @ + 1]
    /\ UNCHANGED <<envVars, dataVars, tkVars, afterq, debounce, preview_pc, external, faults>>

\* lines 837-850: the task starts on a worker, names its rollback log, opens the
\* csv file and skips its header row
UndoBegin(k) ==
    /\ CanStart(k)
    /\ pool[k].kind = "undo"
    /\ pool[k].csv_path \in DOMAIN logs
    /\ pool' = [pool EXCEPT ![k] = [@ EXCEPT !.pc = "loop",
                                              !.rollback_log = [kind |-> "rollback", ts |-> clock],
                                              !.rows = ReadCsvRows(logs, pool[k].csv_path)]]
    /\ UNCHANGED <<envVars, dataVars, tkVars, afterq, debounce, preview_pc, histVars>>

NoPath == [dir |-> <<>>, name |-> <<>>]

\* old is preferred to new
UndoSource_OldFirst(d, old, new) ==
    IF exists(d, old) THEN old ELSE IF exists(d, new) THEN new ELSE NoPath

\* lines 854-861: new if it exists, else old if it exists, else None; the second
\* attempt repeats the first on the absolute paths
UndoSource(d, old, new) ==
    LET first == IF exists(d, new) THEN new ELSE IF exists(d, old) THEN old ELSE NoPath
    IN IF first # NoPath THEN first
       ELSE IF exists(d, abspath(new)) THEN abspath(new)
       ELSE IF exists(d, abspath(old)) THEN abspath(old)
       ELSE NoPath

\* lines 851-874: one record of the log: skipped, moved back, or the move raised
UndoRecord(k) ==
    /\ k \in DOMAIN pool
    /\ pool[k].kind = "undo"
    /\ pool[k].pc = "loop"
    /\ pool[k].i <= Len(pool[k].rows)
    /\ LET t == pool[k]
           old == t.rows[t.i][1]
           new == t.rows[t.i][2]
           source == UndoSource(disk, old, new)
           target == IF isabs(old) THEN old ELSE abspath(old)
       IN \/ /\ source = NoPath
             /\ pool' = [pool EXCEPT ![k] = [@ EXCEPT !.i = @ + 1]]
             /\ UNCHANGED <<disk, faults>>
          \/ /\ source # NoPath
             /\ disk' = Moved(disk, source, target)
             /\ pool' = [pool EXCEPT ![k] = [@ EXCEPT !.i = @ + 1,
                                                      !.rows_out = Append(@, <<source, target>>),
                                                      !.done = @ + 1]]
             /\ UNCHANGED faults
          \/ /\ source # NoPath
             /\ ~faults
             /\ faults' = TRUE
             /\ pool' = [pool EXCEPT ![k] = [@ EXCEPT !.i = @ + 1]]
             /\ UNCHANGED disk
    /\ UNCHANGED <<logs, clock, dataVars, tkVars, afterq, debounce, preview_pc, nreq, external>>

\* lines 875-880: the rollback log is written and the completion callback posted
UndoWriteLog(k) ==
    /\ k \in DOMAIN pool
    /\ pool[k].kind = "undo"
    /\ pool[k].pc = "loop"
    /\ pool[k].i > Len(pool[k].rows)
    /\ logs' = WriteCsv(logs, pool[k].rollback_log, <<"moved_from", "moved_to">>, pool[k].rows_out)
    /\ afterq' = Append(afterq, [cb |-> "_on_undo_done", count |-> pool[k].done,
                                 log |-> pool[k].rollback_log])
    /\ pool' = Without(pool, k)
    /\ UNCHANGED <<disk, clock, dataVars, tkVars, debounce, preview_pc, histVars>>

\* the environment (the user, another program) deletes a file, once, between batches
ExternalDelete(p) ==
    /\ ~external
    /\ pool = <<>>
    /\ exists(disk, p)
    /\ disk' = WithoutFile(disk, p)
    /\ external' = TRUE
    /\ UNCHANGED <<logs, clock, dataVars, tkVars, schedVars, nreq, faults>>

(***************************************************************************)
(* Specification SpecFS: one rename batch on a preview list, then undo     *)
(* batches on the logs it wrote, over every small filesystem               *)
(***************************************************************************)
MaxEntries == 2

MaxUndo == 1

RootDir == << <<"d">> >>

FSNames == { <<"a", ".", "m", "k", "v">>, <<"b", ".", "m", "k", "v">>, <<"s", "2", ".", "m", "k", "v">> }

\* the files that may exist at the start: the sources, and the first names the
\* conflict loop tries for s2.mkv with the suffix "_d" and with the empty suffix
FSUniverse == {join(RootDir, n) : n \in FSNames \cup { <<"s", "2", "_", "d", ".", "m", "k", "v">>,
                                                        <<"s", "2", "1", ".", "m", "k", "v">> }}

FSEntries == {Entry(join(RootDir, o), n) : o \in FSNames, n \in FSNames}

\* the preview lists: at most MaxEntries entries, no source twice (the scan
\* deduplicates paths, and a preview pass makes one entry per scanned file)
FSPreviewLists == UNION {{pl \in [1..n -> FSEntries] : \A i, j \in 1..n : i # j => pl[i].oldabs # pl[j].oldabs} : n \in 1..MaxEntries}

NoRequests == [scan |-> 0, preview |-> 0, execute |-> 0, dry |-> 0, undo |-> 0, edit |-> 0]

InitFS ==
    /\ \E S \in SUBSET FSUniverse : disk = [p \in S |-> p]
    /\ logs = <<>>
    /\ clock = 0
    /\ folders = <<RootDir>>
    /\ preview_list \in FSPreviewLists
    /\ file_list = [i \in 1..Len(preview_list) |-> preview_list[i].oldabs]
    /\ tree = TreeRows(preview_list)
    /\ strategy = "fallback"
    /\ var_recursive = FALSE
    /\ var_pad = <<"3">>
    /\ var_offset = <<"0">>
    /\ var_season \in {<<>>, <<"x">>}
    /\ var_move_season_folder \in BOOLEAN
    /\ var_season = <<>> \/ var_move_season_folder
    /\ var_sort_method = "name"
    /\ var_title = <<>>
    /\ var_include_episode_title = TRUE
    /\ var_dryrun = FALSE
    /\ var_conflict_suffix \in {<<"_", "d">>, <<>>}
    /\ pool = <<ExecuteTask>>
    /\ afterq = <<>>
    /\ debounce = FALSE
    /\ preview_pc = "idle"
    /\ nreq = [NoRequests EXCEPT !.execute = 1]
    /\ external = FALSE
    /\ faults = FALSE

NextFS ==
    \/ \E k \in DOMAIN pool : ExecBegin(k)
    \/ \E k \in DOMAIN pool : ExecEntry(k)
    \/ \E k \in DOMAIN pool : ExecWriteLog(k)
    \/ \E f \in DOMAIN logs : nreq.undo < MaxUndo /\ pool = <<>> /\ undo_via_log(f)
    \/ \E k \in DOMAIN pool : UndoBegin(k)
    \/ \E k \in DOMAIN pool : UndoRecord(k)
    \/ \E k \in DOMAIN pool : UndoWriteLog(k)
    \/ \E p \in DOMAIN disk : ExternalDelete(p)

SpecFS == InitFS /\ [][NextFS]_vars

(***************************************************************************)
(* Claims on the Rename Executor and the Undo Engine (SpecFS)              *)
(***************************************************************************)
ExecLog == [kind |-> "log", ts |-> 0]

RollbackLog == [kind |-> "rollback", ts |-> 0]

Posted(cb) == {i \in DOMAIN afterq : afterq[i].cb = cb}

\* a step of the loop of task k (an execute or an undo task)
LoopStep(k, kind) ==
    /\ pool[k].kind = kind
    /\ pool[k].pc = "loop"
    /\ Len(pool') = Len(pool)
    /\ pool'[k] # pool[k]

\* the step in which task k ends
EndStep(k, kind) ==
    /\ pool[k].kind = kind
    /\ pool[k].pc = "loop"
    /\ pool' = Without(pool, k)

\* the disk after the step is the disk before it with the file at src now at dst
IsMove(src, dst) ==
    /\ exists(disk, src)
    /\ DOMAIN disk' = (DOMAIN disk \ {src}) \cup {dst}
    /\ disk'[dst] = disk[src]
    /\ \A p \in DOMAIN disk \ {src, dst} : disk'[p] = disk[p]

\* C1 (as claimed, for a batch that moved every entry and no file twice): once
\* the undo batch on the log of the rename batch has ended, with no other change
\* of the disk and no move that raised, every file the rename batch moved is
\* back at its original path with its original content
C1_RoundTrip ==
    (/\ pool = <<>>
     /\ nreq.undo = 1
     /\ Posted("_on_undo_done") # {}
     /\ ~external
     /\ ~faults
     /\ Len(logs[ExecLog]) = Len(preview_list) + 1
     /\ \A i, j \in 2..Len(logs[ExecLog]) : i < j => logs[ExecLog][j][1] # logs[ExecLog][i][2])
    => \A i \in 2..Len(logs[ExecLog]) :
           LET old == logs[ExecLog][i][1]
           IN exists(disk, old) /\ disk[old] = old

\* C7: every iteration of the rename loop goes on to the next entry; it either
\* moves the entry's file and appends the row (source, destination), or leaves
\* the disk and the rows as they were; the batch ends after the last entry, and
\* then the log file holds the header and the rows and the reported count is
\* the number of rows
C7_LogMatchesMoves ==
    [][\A k \in DOMAIN pool :
        /\ LoopStep(k, "execute") =>
              LET t == pool[k]
                  u == pool'[k]
                  e == t.items[t.i]
              IN /\ u.i = t.i + 1
                 /\ u.items = t.items
                 /\ \/ /\ disk' = disk
                       /\ u.log_rows = t.log_rows
                       /\ u.processed = t.processed
                    \/ /\ Len(u.log_rows) = Len(t.log_rows) + 1
                       /\ SubSeq(u.log_rows, 1, Len(t.log_rows)) = t.log_rows
                       /\ u.log_rows[Len(u.log_rows)][1] = e.oldabs
                       /\ IsMove(e.oldabs, u.log_rows[Len(u.log_rows)][2])
                       /\ disk' # disk
                       /\ u.processed = t.processed + 1
        /\ EndStep(k, "execute") =>
              /\ pool[k].i = Len(pool[k].items) + 1
              /\ logs'[pool[k].log_file] = << <<"old", "new">> >> \o pool[k].log_rows
              /\ afterq'[Len(afterq')].cb = "_on_execute_done"
              /\ afterq'[Len(afterq')].count = Len(pool[k].log_rows)
              /\ afterq'[Len(afterq')].log = pool[k].log_file
      ]_vars

\* a batch of two entries has ended with one entry moved and one failed
C7_Witness ==
    \E i \in Posted("_on_execute_done") :
        /\ afterq[i].count = 1
        /\ Len(preview_list) = 2
        /\ Len(logs[ExecLog]) = 2

\* the n-th path the executor considers for a destination: the destination, then
\* destination+suffix, then destination+suffix+1, +2, ...
C8_Candidate(dest, suffix, n) == IF n = 0 THEN dest ELSE DupPath(dest, suffix, n - 1)

\* C8: a move of the rename loop goes to a path that does not exist before the
\* move: the first of destination, destination+suffix, destination+suffix+1, ...
\* that does not exist, found within as many tries as the disk has files, plus two
C8_MovesToFirstFreePath ==
    [][\A k \in DOMAIN pool :
        (LoopStep(k, "execute") /\ Len(pool'[k].log_rows) > Len(pool[k].log_rows)) =>
            LET t == pool[k]
                dest == ExecDestination(t.items[t.i], var_move_season_folder, var_season).path
                final == pool'[k].log_rows[Len(pool'[k].log_rows)][2]
            IN /\ ~exists(disk, final)
               /\ \E n \in 0..(Cardinality(DOMAIN disk) + 1) :
                     /\ final = C8_Candidate(dest, t.conflict_suffix, n)
                     /\ \A j \in 0..(n - 1) : exists(disk, C8_Candidate(dest, t.conflict_suffix, j))
      ]_vars

\* with the empty suffix, a file was moved to the second numbered name
C8_Witness ==
    /\ var_conflict_suffix = <<>>
    /\ ExecLog \in DOMAIN logs
    /\ \E i \in 2..Len(logs[ExecLog]) : logs[ExecLog][i][2].name = <<"s", "2", "2", ".", "m", "k", "v">>

C17_UnchangedLeftAlone ==
    [][\A k \in DOMAIN pool :
        (/\ LoopStep(k, "execute")
         /\ ~var_move_season_folder
         /\ pool[k].items[pool[k].i].newname = pool[k].items[pool[k].i].oldname) =>
            /\ disk' = disk
            /\ pool'[k].log_rows = pool[k].log_rows
      ]_vars

(***************************************************************************)
(* The coordinating context: preview passes and scan results               *)
(***************************************************************************)
\* preview() on the file list `files`: the list and the rows are cleared
\* (lines 573-575); with no files (577), or when reading the pad or offset
\* field raises (615-616), they stay empty; else they are rebuilt (623-730)
PassResult(files, pad, offset, parsed) ==
    IF files = <<>> \/ ~pad.ok \/ ~offset.ok
    THEN /\ preview_list' = <<>>
         /\ tree' = <<>>
         /\ strategy' = "none"
    ELSE /\ preview_list' = PreviewEntries(parsed, var_season, offset.val, pad.val, var_include_episode_title)
         /\ tree' = TreeRows(preview_list')
         /\ strategy' = Strategy(parsed)

PreviewPass(files) ==
    PassResult(files, IntVarGet(var_pad), IntVarGet(var_offset), parse_all(files, var_sort_method))

\* the "force preview" button
preview ==
    /\ PreviewPass(file_list)
    /\ nreq' = [nreq EXCEPT !.preview = @ + 1]
    /\ UNCHANGED <<envVars, folders, file_list, tkVars, schedVars, external, faults>>

\* what _scan_task posts: root.after(0, self._on_scan_done, files_sorted)
ScanDone(files) == [cb |-> "_on_scan_done", files |-> files]

RECURSIVE Paths(_)
Paths(infos) == IF infos = <<>> THEN <<>> ELSE <<Head(infos).p>> \o Paths(Tail(infos))

\* line 562: files_sorted, from the files in the order the walk found them
files_sorted(files) == Paths(sorted(FileInfos(files), "name"))

\* _on_scan_done: the oldest posted callback runs
on_scan_done ==
    /\ afterq # <<>>
    /\ Head(afterq).cb = "_on_scan_done"
    /\ file_list' = Head(afterq).files
    /\ PreviewPass(Head(afterq).files)
    /\ afterq' = Tail(afterq)
    /\ nreq' = [nreq EXCEPT !.preview = @ + 1]
    /\ UNCHANGED <<envVars, folders, tkVars, pool, debounce, preview_pc, external, faults>>

\* a debounced preview is due: root.after(AUTO_PREVIEW_DEBOUNCE_MS, self.preview)
debounced_preview ==
    /\ debounce
    /\ debounce' = FALSE
    /\ UNCHANGED preview_pc
    /\ PreviewPass(file_list)
    /\ nreq' = [nreq EXCEPT !.preview = @ + 1]
    /\ UNCHANGED <<envVars, folders, file_list, tkVars, pool, afterq, external, faults>>

ScanTask == [kind |-> "scan", pc |-> "queued"]

\* scan_async as the handlers call it: EXECUTOR.submit(self._scan_task)
SubmitScan ==
    /\ pool' = Append(pool, ScanTask)
    /\ nreq' = [nreq EXCEPT !.scan = @ + 1]

\* the "scan" button
scan_async ==
    /\ SubmitScan
    /\ UNCHANGED <<envVars, dataVars, tkVars, afterq, debounce, preview_pc, external, faults>>

\* add_folder: the dialog returns path; a folder already listed changes nothing
add_folder(path) ==
    /\ path \notin {folders[i] : i \in DOMAIN folders}
    /\ folders' = Append(folders, path)
    /\ SubmitScan
    /\ debounce' = TRUE
    /\ UNCHANGED preview_pc
    /\ UNCHANGED <<envVars, file_list, preview_list, tree, strategy, tkVars, afterq, external, faults>>

\* remove_selected_folder with the folder at idx selected
remove_selected_folder(idx) ==
    /\ idx \in DOMAIN folders
    /\ folders' = Without(folders, idx)
    /\ SubmitScan
    /\ debounce' = TRUE
    /\ UNCHANGED preview_pc
    /\ UNCHANGED <<envVars, file_list, preview_list, tree, strategy, tkVars, afterq, external, faults>>

IsPrefix(a, b) == Len(a) <= Len(b) /\ SubSeq(b, 1, Len(a)) = a

\* os.listdir(folder), or os.walk(folder) when scanning recursively: the files found
Listing(d, folder, recursive) ==
    {p \in DOMAIN d : IF recursive THEN IsPrefix(folder, p.dir) ELSE p.dir = folder}

\* the order in which a listing yields its names is the system's; the sort of
\* line 562 leaves it visible only between names of equal natural key
RECURSIVE SeqOf(_)
SeqOf(S) == IF S = {} THEN <<>> ELSE LET p == CHOOSE x \in S : TRUE IN <<p>> \o SeqOf(S \ {p})

\* lines 552-561: the videos of the folders, each path once
RECURSIVE Walk(_, _, _, _)
Walk(d, fs, recursive, seen) ==
    IF fs = <<>> THEN <<>>
    ELSE LET found == {p \in Listing(d, Head(fs), recursive) : is_video(p.name) /\ p \notin seen}
         IN SeqOf(found) \o Walk(d, Tail(fs), recursive, seen \cup found)

\* the worker stores its result in the file list itself
scan_task_SetsFileList(k) ==
    /\ CanStart(k)
    /\ pool[k].kind = "scan"
    /\ file_list' = files_sorted(Walk(disk, folders, var_recursive, {}))
    /\ pool' = Without(pool, k)
    /\ UNCHANGED <<envVars, folders, preview_list, tree, strategy, tkVars, afterq, debounce, preview_pc, histVars>>

\* _scan_task on a worker: the walk, the sort and the posted result
scan_task(k) ==
    /\ CanStart(k)
    /\ pool[k].kind = "scan"
    /\ afterq' = Append(afterq, ScanDone(files_sorted(Walk(disk, folders, var_recursive, {}))))
    /\ pool' = Without(pool, k)
    /\ UNCHANGED <<envVars, dataVars, tkVars, debounce, preview_pc, histVars>>

\* _scan_task statement by statement. Line 554: the task starts on a worker
\* and copies the folder list; the recursive option is read with it
scan_begin(k) ==
    /\ CanStart(k)
    /\ pool[k].kind = "scan"
    /\ pool' = [pool EXCEPT ![k] = [kind |-> "scan", pc |-> "walk", folders |-> folders, recursive |-> var_recursive]]
    /\ UNCHANGED <<envVars, dataVars, tkVars, afterq, debounce, preview_pc, histVars>>

\* lines 555-563: the walk of the copied folders is over; the sorted result
\* is posted to the coordinating context
scan_end(k) ==
    /\ k \in DOMAIN pool
    /\ pool[k].kind = "scan"
    /\ pool[k].pc = "walk"
    /\ afterq' = Append(afterq, ScanDone(files_sorted(Walk(disk, pool[k].folders, pool[k].recursive, {}))))
    /\ pool' = Without(pool, k)
    /\ UNCHANGED <<envVars, dataVars, tkVars, debounce, preview_pc, histVars>>

\* a key is released in the offset field: the field holds text
type_offset(text) ==
    /\ text # var_offset
    /\ var_offset' = text
    /\ debounce' = TRUE
    /\ UNCHANGED preview_pc
    /\ nreq' = [nreq EXCEPT !.edit = @ + 1]
    /\ UNCHANGED <<envVars, dataVars, var_recursive, var_pad, var_season, var_sort_method,
                   var_title, var_include_episode_title, var_dryrun, var_conflict_suffix,
                   var_move_season_folder, pool, afterq, external, faults>>

\* a key is released in the padding field
type_pad(text) ==
    /\ text # var_pad
    /\ var_pad' = text
    /\ debounce' = TRUE
    /\ UNCHANGED preview_pc
    /\ nreq' = [nreq EXCEPT !.edit = @ + 1]
    /\ UNCHANGED <<envVars, dataVars, var_recursive, var_offset, var_season, var_sort_method,
                   var_title, var_include_episode_title, var_dryrun, var_conflict_suffix,
                   var_move_season_folder, pool, afterq, external, faults>>

\* the dry-run checkbutton: the variable flips, then _on_setting_change
toggle_dryrun ==
    /\ var_dryrun' = ~var_dryrun
    /\ debounce' = TRUE
    /\ UNCHANGED preview_pc
    /\ nreq' = [nreq EXCEPT !.edit = @ + 1]
    /\ UNCHANGED <<envVars, dataVars, var_recursive, var_pad, var_offset, var_season,
                   var_sort_method, var_title, var_include_episode_title, var_conflict_suffix,
                   var_move_season_folder, pool, afterq, external, faults>>

\* the dry-run test is skipped
IsDryRun_Never == FALSE

\* line 758: self.var_dryrun.get()
IsDryRun == var_dryrun

\* execute_async: the "rename" button; confirmed is the answer to the dialog of line 761
execute_async(confirmed) ==
    /\ pool' = IF preview_list # <<>> /\ ~IsDryRun /\ confirmed THEN Append(pool, ExecuteTask) ELSE pool
    /\ nreq' = [nreq EXCEPT !.execute = @ + 1, !.dry = IF var_dryrun THEN @ + 1 ELSE @]
    /\ UNCHANGED <<envVars, dataVars, tkVars, afterq, debounce, preview_pc, external, faults>>

\* _on_execute_done: the oldest posted callback runs; it scans again
on_execute_done ==
    /\ afterq # <<>>
    /\ Head(afterq).cb = "_on_execute_done"
    /\ afterq' = Tail(afterq)
    /\ SubmitScan
    /\ UNCHANGED <<envVars, dataVars, tkVars, debounce, preview_pc, external, faults>>

\* _on_undo_done: the oldest posted callback runs; it scans again
on_undo_done ==
    /\ afterq # <<>>
    /\ Head(afterq).cb = "_on_undo_done"
    /\ afterq' = Tail(afterq)
    /\ SubmitScan
    /\ UNCHANGED <<envVars, dataVars, tkVars, debounce, preview_pc, external, faults>>

\* a second of wall-clock time passes
Tick ==
    /\ clock' = clock + 1
    /\ UNCHANGED <<disk, logs, dataVars, tkVars, schedVars, histVars>>

(***************************************************************************)
(* preview() statement by statement: a worker thread can run between the   *)
(* statements of the coordinating context                                  *)
(***************************************************************************)
\* lines 573-616: the rows and the list are cleared; the pass ends there with
\* no files (577) or when reading the pad or offset field raises (615-616)
preview_clear(files, pad, offset) ==
    /\ preview_pc = "idle"
    /\ tree' = <<>>
    /\ preview_list' = <<>>
    /\ preview_pc' = IF files = <<>> \/ ~pad.ok \/ ~offset.ok THEN "idle" ELSE "fill"
    /\ strategy' = IF files = <<>> \/ ~pad.ok \/ ~offset.ok THEN "none" ELSE strategy
    /\ nreq' = [nreq EXCEPT !.preview = @ + 1]

\* the "force preview" button, up to the first append
preview_begin ==
    /\ preview_clear(file_list, IntVarGet(var_pad), IntVarGet(var_offset))
    /\ UNCHANGED <<envVars, folders, file_list, tkVars, pool, afterq, debounce, external, faults>>

\* _on_scan_done, up to the first append of its preview pass
on_scan_done_begin ==
    /\ afterq # <<>>
    /\ Head(afterq).cb = "_on_scan_done"
    /\ file_list' = Head(afterq).files
    /\ preview_clear(Head(afterq).files, IntVarGet(var_pad), IntVarGet(var_offset))
    /\ afterq' = Tail(afterq)
    /\ UNCHANGED <<envVars, folders, tkVars, pool, debounce, external, faults>>

\* lines 645, 667, 682: self.preview_list.append(...) for the next file
AppendNext(entries) ==
    /\ preview_list' = Append(preview_list, entries[Len(preview_list) + 1])
    /\ UNCHANGED <<envVars, folders, file_list, tree, strategy, tkVars, pool, afterq, debounce, preview_pc, histVars>>

preview_append ==
    /\ preview_pc = "fill"
    /\ Len(preview_list) < Len(file_list)
    /\ AppendNext(PreviewEntries(parse_all(file_list, var_sort_method), var_season, IntVarGet(var_offset).val,
                                 IntVarGet(var_pad).val, var_include_episode_title))

\* lines 684-743: after the last append the conflicts are found and the rows
\* are inserted
preview_end ==
    /\ preview_pc = "fill"
    /\ Len(preview_list) = Len(file_list)
    /\ tree' = TreeRows(preview_list)
    /\ strategy' = Strategy(parse_all(file_list, var_sort_method))
    /\ preview_pc' = "idle"
    /\ UNCHANGED <<envVars, folders, file_list, preview_list, tkVars, pool, afterq, debounce, histVars>>

(***************************************************************************)
(* Specification SpecPreview: one preview pass over every batch drawn from *)
(* a catalogue of names, under every combination of the settings           *)
(***************************************************************************)
\* the members of seq at the positions in S, in the order of seq
RECURSIVE Pick(_, _)
Pick(seq, S) ==
    IF seq = <<>> THEN <<>>
    ELSE Pick(SubSeq(seq, 1, Len(seq) - 1), S) \o (IF Len(seq) \in S THEN <<seq[Len(seq)]>> ELSE <<>>)

Batch(S, a) == Pick(Catalogue, S) \o [i \in 1..a |-> Filler(i)]

\* the batch is on the disk and its scan result is posted
Scanned(batch) ==
    /\ disk = [p \in {batch[i] : i \in 1..Len(batch)} |-> p]
    /\ afterq = <<ScanDone(files_sorted(batch))>>

InitPreview ==
    /\ \E S \in SUBSET (1..Len(Catalogue)), a \in 0..MaxFillers : Scanned(Batch(S, a))
    /\ logs = <<>>
    /\ clock = 0
    /\ folders = <<DirD, DirE>>
    /\ file_list = <<>>
    /\ preview_list = <<>>
    /\ tree = <<>>
    /\ strategy = "none"
    /\ var_recursive = FALSE
    /\ var_pad = <<"3">>
    /\ var_offset \in {<<"0">>, <<"1", "0">>}
    /\ var_season \in {<<>>, <<"2">>}
    /\ var_move_season_folder = FALSE
    /\ var_sort_method \in {"name", "numeric", "guess"}
    /\ var_title = <<>>
    /\ var_include_episode_title = TRUE
    /\ var_dryrun = TRUE
    /\ var_conflict_suffix = <<"_", "d", "u", "p">>
    /\ pool = <<>>
    /\ debounce = FALSE
    /\ preview_pc = "idle"
    /\ nreq = [NoRequests EXCEPT !.scan = 1]
    /\ external = FALSE
    /\ faults = FALSE

NextPreview == on_scan_done

SpecPreview == InitPreview /\ [][NextPreview]_vars

(***************************************************************************)
(* Claims on the preview builder (SpecPreview)                             *)
(***************************************************************************)
\* the files of the batch that carry a parsed episode number
WithEpisode(files) == {i \in 1..Len(files) : FileInfo(files[i]).episode # None}

SameTarget(a, b) == dirname(a.oldabs) = dirname(b.oldabs) /\ Lower(a.newname) = Lower(b.newname)

\* C2: after a preview pass the tree has one row per entry, in order, and an
\* entry's row is tagged conflict exactly when another entry of the list has
\* the same directory and the same target name, ignoring case; so every
\* member of a colliding group is tagged and untagged entries of a directory
\* have distinct targets
C2_ConflictIffSameTarget ==
    /\ Len(tree) = Len(preview_list)
    /\ \A i \in 1..Len(preview_list) :
          /\ tree[i].values = <<preview_list[i].oldname, preview_list[i].newname>>
          /\ tree[i].tag = "conflict" <=>
                \E j \in 1..Len(preview_list) : j # i /\ SameTarget(preview_list[i], preview_list[j])

C2_Witness ==
    /\ nreq.preview = 1
    /\ \E i, j, k \in 1..Len(preview_list) :
          /\ i < j
          /\ tree[i].tag = "conflict"
          /\ tree[j].tag = "conflict"
          /\ preview_list[i].newname # preview_list[j].newname
          /\ SameTarget(preview_list[i], preview_list[j])
          /\ tree[k].tag # "conflict"
          /\ Lower(preview_list[k].newname) = Lower(preview_list[i].newname)

TrustIff(k, n, enough) == strategy # "none" => (strategy = "trust" <=> k >= 2 /\ enough)

\* C3 as stated: trust-parsed-numbers is selected exactly when the number k
\* of files with an episode number is at least max(2, n/3), n/3 the fraction
C3_TrustIffThird ==
    TrustIff(Cardinality(WithEpisode(file_list)), Len(file_list),
             3 * Cardinality(WithEpisode(file_list)) >= Len(file_list))

Examples(k, n) ==
    strategy # "none" =>
        /\ n = 9 /\ k = 4 => strategy = "trust"
        /\ (n = 9 /\ k = 1 /\ \A i \in 1..n : ~IsPureNumeric(file_list[i])) => strategy = "fallback"

\* C3, amended: trust-parsed-numbers is selected exactly when k is at least
\* max(2, n div 3), the third rounded down; 4 of 9 selects it, and 1 of 9
\* without pure-numeric names selects sequential-fallback
C3_TrustIffFloorThird ==
    /\ TrustIff(Cardinality(WithEpisode(file_list)), Len(file_list),
                Cardinality(WithEpisode(file_list)) >= Len(file_list) \div 3)
    /\ Examples(Cardinality(WithEpisode(file_list)), Len(file_list))

C3_Witness ==
    /\ nreq.preview = 1
    /\ Len(file_list) = 7
    /\ Cardinality(WithEpisode(file_list)) = 2
    /\ strategy = "trust"

\* the target name of the file with parse result x when its final episode
\* number is ep
TargetWithEpisode(x, ep) ==
    NewName(Numbered(x.p,
                     IF season_val(var_season) # None THEN season_val(var_season)
                     ELSE IF x.season # None THEN x.season
                     ELSE 1,
                     ep, x.extra),
            IntVarGet(var_pad).val, var_include_episode_title)

CarriesOffset(e, x, offset) ==
    IF x.episode # None THEN e.newname = TargetWithEpisode(x, x.episode + offset)
    ELSE \E b \in 1..Len(preview_list) : e.newname = TargetWithEpisode(x, b + offset)

\* C4: whichever strategy the pass selected, the target of a file with a
\* parsed episode number e carries e + offset, and the target of a file
\* without one carries a position of the batch + offset: the offset is added
\* once; so parsed episode 1 with offset 10 gives episode 11
C4_OffsetAddedOnce ==
    \A i \in 1..Len(preview_list) :
        CarriesOffset(preview_list[i], FileInfo(preview_list[i].oldabs), IntVarGet(var_offset).val)

C4_Witness ==
    /\ nreq.preview = 1
    /\ var_offset = <<"1", "0">>
    /\ strategy = "fallback"
    /\ \E i \in 1..Len(preview_list) :
          /\ FileInfo(preview_list[i].oldabs).episode = 1
          /\ preview_list[i].newname = <<"S", "e", "r", "i", "e", "s", ".", "S", "0", "1", "E", "0", "1", "1", ".", "m", "k", "v">>

\* another entry of the list has the directory and, ignoring case, the target of entry i
Contested(i) == \E j \in 1..Len(preview_list) : j # i /\ SameTarget(preview_list[i], preview_list[j])

\* C11 as stated: after a preview pass an entry is tagged unchanged exactly
\* when its original name equals its target name, case included
C11_UnchangedIffSameName ==
    \A i \in 1..Len(preview_list) :
        tree[i].tag = "unchanged" <=> preview_list[i].oldname = preview_list[i].newname

\* C11, amended: an entry is tagged unchanged exactly when its original name
\* equals its target name, case included, and no other entry of its directory
\* has that target; when another one has, the entry is tagged conflict and
\* not unchanged
C11_UnchangedIffSameNameAlone ==
    \A i \in 1..Len(preview_list) :
        /\ tree[i].tag = "unchanged" <=>
              preview_list[i].oldname = preview_list[i].newname /\ ~Contested(i)
        /\ preview_list[i].oldname = preview_list[i].newname /\ Contested(i) => tree[i].tag = "conflict"

\* a pass that tagged one entry unchanged beside entries it tagged otherwise
C11_Witness ==
    /\ nreq.preview = 1
    /\ \E i, j \in 1..Len(preview_list) :
          /\ tree[i].tag = "unchanged"
          /\ preview_list[i].oldname = preview_list[i].newname
          /\ tree[j].tag = ""

\* the position of the file at path p in the file list (the scan order)
ScanPos(p) == CHOOSE i \in 1..Len(file_list) : file_list[i] = p

\* entry i carries position i + offset when its file has no parsed episode number
NumberedByPosition(i) ==
    FileInfo(preview_list[i].oldabs).episode = None =>
        preview_list[i].newname = TargetWithEpisode(FileInfo(preview_list[i].oldabs), i + IntVarGet(var_offset).val)

\* C14 as stated: when a pass selects sequential-fallback the preview list is
\* in the scan order of the file list and the position-based number of a file
\* is its position in the scan order, whatever the sort method
C14_FallbackInScanOrder ==
    strategy = "fallback" =>
        /\ Len(preview_list) = Len(file_list)
        /\ \A i \in 1..Len(preview_list) : preview_list[i].oldabs = file_list[i] /\ NumberedByPosition(i)

\* the file x comes before the file y under the "guess" method: files with a
\* parsed episode number first, by that number, then the scan order
GuessBefore(x, y) ==
    \/ x.episode # None /\ y.episode = None
    \/ x.episode # None /\ y.episode # None /\ x.episode < y.episode
    \/ (x.episode = None <=> y.episode = None) /\ (x.episode = y.episode) /\ ScanPos(x.p) < ScanPos(y.p)

\* C14, amended: when a pass selects sequential-fallback the preview list
\* holds the files in the order of the sort method and the position-based
\* number of a file is its position in that order; under "name" and
\* "numeric" this is the scan order, under "guess" the files with a parsed
\* episode number come first
C14_FallbackInSortOrder ==
    strategy = "fallback" =>
        /\ Len(preview_list) = Len(file_list)
        /\ \A i \in 1..Len(file_list) : \E j \in 1..Len(preview_list) : preview_list[j].oldabs = file_list[i]
        /\ \A i \in 1..Len(preview_list) : NumberedByPosition(i)
        /\ \A i, j \in 1..Len(preview_list) :
              i < j =>
                 IF var_sort_method = "guess"
                 THEN GuessBefore(FileInfo(preview_list[i].oldabs), FileInfo(preview_list[j].oldabs))
                 ELSE ScanPos(preview_list[i].oldabs) < ScanPos(preview_list[j].oldabs)

\* a fallback pass under "guess" that moved a file with an episode number to the front
C14_Witness ==
    /\ nreq.preview = 1
    /\ strategy = "fallback"
    /\ var_sort_method = "guess"
    /\ Len(preview_list) >= 3
    /\ preview_list[1].oldabs # file_list[1]
    /\ FileInfo(preview_list[1].oldabs).episode # None

\* C20: a preview pass never selects the pure-numeric-sequence strategy: every
\* file counted as pure-numeric has a parsed episode number, and whenever the
\* pure-numeric count reaches max(2, n div 3) the pass trusts the parsed numbers
C20_NumericNeverSelected ==
    /\ strategy # "numeric"
    /\ strategy # "none" =>
          /\ \A i \in 1..Len(file_list) : IsPureNumeric(file_list[i]) => FileInfo(file_list[i]).episode # None
          /\ Cardinality({i \in 1..Len(file_list) : IsPureNumeric(file_list[i])}) >= Threshold(Len(file_list))
                => strategy = "trust"

\* a pass over 7.mkv, 12.mkv and files without any number: only the two
\* pure-numeric names have a parsed episode number, and the pass trusts them
C20_Witness ==
    /\ strategy = "trust"
    /\ Len(file_list) >= 3
    /\ {i \in 1..Len(file_list) : FileInfo(file_list[i]).episode # None} = {i \in 1..Len(file_list) : IsPureNumeric(file_list[i])}
    /\ Cardinality({i \in 1..Len(file_list) : IsPureNumeric(file_list[i])}) = 2

(***************************************************************************)
(* Specification Spec: the application from its start on a small disk:     *)
(* folders are added and removed, scans run on the pool, settings are      *)
(* edited, previews are made and renames requested and carried out         *)
(***************************************************************************)
MaxScan == 2

MaxPreview == 3

MaxEdits == 2

MaxExecute == 1

\* two videos and a text file in d, one video in e
AppFiles ==
    {Catalogue[1], Catalogue[4], Catalogue[5], join(DirD, <<"n", ".", "t", "x", "t">>)}

\* what the offset field holds while its "0" is replaced by "1"
OffsetTexts == {<<"0">>, <<>>, <<"1">>}

\* what the padding field holds before and after its "3" is deleted
PadTexts == {<<"3">>, <<>>}

Init ==
    /\ disk = [p \in AppFiles |-> p]
    /\ logs = <<>>
    /\ clock = 0
    /\ folders = <<>>
    /\ file_list = <<>>
    /\ preview_list = <<>>
    /\ tree = <<>>
    /\ strategy = "none"
    /\ var_recursive = FALSE
    /\ var_pad = <<"3">>
    /\ var_offset = <<"0">>
    /\ var_season = <<"1">>
    /\ var_move_season_folder = FALSE
    /\ var_sort_method = "name"
    /\ var_title = <<>>
    /\ var_include_episode_title = TRUE
    /\ var_dryrun = TRUE
    /\ var_conflict_suffix = <<"_", "d", "u", "p">>
    /\ pool = <<>>
    /\ afterq = <<>>
    /\ debounce = FALSE
    /\ preview_pc = "idle"
    /\ nreq = NoRequests
    /\ external = FALSE
    /\ faults = FALSE

Next ==
    \/ \E path \in {DirD, DirE} : nreq.scan < MaxScan /\ add_folder(path)
    \/ \E idx \in DOMAIN folders : nreq.scan < MaxScan /\ remove_selected_folder(idx)
    \/ nreq.scan < MaxScan /\ scan_async
    \/ \E k \in DOMAIN pool : scan_task(k)
    \/ on_scan_done
    \/ nreq.preview < MaxPreview /\ preview
    \/ debounced_preview
    \/ \E text \in OffsetTexts : nreq.edit < MaxEdits /\ type_offset(text)
    \/ \E text \in PadTexts : nreq.edit < MaxEdits /\ type_pad(text)
    \/ nreq.edit < MaxEdits /\ toggle_dryrun
    \/ \E confirmed \in BOOLEAN : nreq.execute < MaxExecute /\ execute_async(confirmed)
    \/ \E k \in DOMAIN pool : ExecBegin(k)
    \/ \E k \in DOMAIN pool : ExecEntry(k)
    \/ \E k \in DOMAIN pool : ExecWriteLog(k)
    \/ on_execute_done

Spec == Init /\ [][Next]_vars

(***************************************************************************)
(* Claims on the coordinating context (Spec)                               *)
(***************************************************************************)
\* C5: whenever no preview pass is running, the preview list has as many
\* entries as the file list has files, one for each file; so also after a
\* pass that started while the padding or the offset field held text that is
\* not an integer.  (A pass is one step here, so none is running in any state.)
C5_PreviewCoversFiles ==
    /\ Len(preview_list) = Len(file_list)
    /\ \A i \in 1..Len(file_list) : \E j \in 1..Len(preview_list) : preview_list[j].oldabs = file_list[i]

\* a rename request is made while dry-run is on
DryRequest == nreq'.execute = nreq.execute + 1 /\ var_dryrun

\* C6: a rename request made with dry-run on submits no task and moves no
\* file: the step of the request leaves the pool, the disk and the logs as
\* they are, and as long as every request was made with dry-run on the disk
\* is the one the application started on
C6_DryRunMovesNothing ==
    /\ [][DryRequest => pool' = pool /\ disk' = disk /\ logs' = logs]_vars
    /\ [](nreq.execute = nreq.dry => disk = [p \in AppFiles |-> p] /\ logs = <<>>)

\* a request was made with dry-run on and a preview to carry out
C6_Witness ==
    /\ nreq.dry = 1
    /\ nreq.edit = 0
    /\ var_dryrun
    /\ preview_list # <<>>
    /\ pool = <<>>
    /\ disk = [p \in AppFiles |-> p]

(***************************************************************************)
(* Specification SpecNumeric: the pure-numeric-sequence block of preview   *)
(* (lines 646-667) applied to every batch of a few pure-numeric names and  *)
(* a few other names.  The block is entered here directly: the selector of *)
(* line 623 comes first in preview, and rule 7 of parse_episode_info gives *)
(* every pure-numeric name an episode number.                              *)
(***************************************************************************)
MaxOthers == 3

NumericNames == << <<"1">>, <<"2">>, <<"0", "7">>, <<"0", "1", "0">> >>

NumericFile(i) == join(DirD, NumericNames[i] \o <<".", "m", "k", "v">>)

NumericBatch(a) == [i \in 1..Len(NumericNames) |-> NumericFile(i)] \o [i \in 1..a |-> Filler(i)]

\* the condition of line 646
PureNumericEnough(parsed) ==
    pure_numeric_files(parsed) # <<>> /\ Len(pure_numeric_files(parsed)) >= Threshold(Len(parsed))

\* lines 646-667 on the parsed batch, then the conflict marks and the rows
NumericResult(parsed, pad, offset) ==
    /\ PureNumericEnough(parsed)
    /\ preview_list' = Entries(NumericNumbering(parsed, season_val(var_season), offset.val), pad.val, var_include_episode_title)
    /\ tree' = TreeRows(preview_list')
    /\ strategy' = "numeric"

pure_numeric_pass ==
    /\ file_list # <<>>
    /\ preview_list = <<>>
    /\ NumericResult(parse_all(file_list, var_sort_method), IntVarGet(var_pad), IntVarGet(var_offset))
    /\ nreq' = [nreq EXCEPT !.preview = @ + 1]
    /\ UNCHANGED <<envVars, folders, file_list, tkVars, schedVars, external, faults>>

InitNumeric ==
    /\ \E S \in SUBSET (1..Len(NumericNames)), a \in 0..MaxOthers :
          /\ Cardinality(S) >= 2
          /\ file_list = files_sorted(Pick(NumericBatch(a), S \cup (Len(NumericNames) + 1)..(Len(NumericNames) + a)))
    /\ disk = [p \in {file_list[i] : i \in 1..Len(file_list)} |-> p]
    /\ logs = <<>>
    /\ clock = 0
    /\ folders = <<DirD>>
    /\ preview_list = <<>>
    /\ tree = <<>>
    /\ strategy = "none"
    /\ var_recursive = FALSE
    /\ var_pad = <<"3">>
    /\ var_offset \in {<<"0">>, <<"1", "0">>}
    /\ var_season \in {<<>>, <<"2">>}
    /\ var_move_season_folder = FALSE
    /\ var_sort_method \in {"name", "guess"}
    /\ var_title = <<>>
    /\ var_include_episode_title = TRUE
    /\ var_dryrun = TRUE
    /\ var_conflict_suffix = <<"_", "d", "u", "p">>
    /\ pool = <<>>
    /\ afterq = <<>>
    /\ debounce = FALSE
    /\ preview_pc = "idle"
    /\ nreq = [NoRequests EXCEPT !.scan = 1]
    /\ external = FALSE
    /\ faults = FALSE

NextNumeric == pure_numeric_pass

SpecNumeric == InitNumeric /\ [][NextNumeric]_vars

(***************************************************************************)
(* Claims on the pure-numeric-sequence block (SpecNumeric)                 *)
(***************************************************************************)
\* the entry of the file at path p numbered ep
NumericEntry(p, ep) ==
    Entry(p, NewName(Numbered(p, SeasonFinal(season_val(var_season), None), ep, <<>>),
                     IntVarGet(var_pad).val, var_include_episode_title))

\* the entries when the pure-numeric files, in the order of their values, and
\* then the other files, in the order of the batch, are numbered 1+offset,
\* 2+offset, ... without a gap or a repeat
RECURSIVE Consecutive(_, _)
Consecutive(items, offset) ==
    IF items = <<>> THEN <<>>
    ELSE Append(Consecutive(SubSeq(items, 1, Len(items) - 1), offset),
                NumericEntry(items[Len(items)].p, Len(items) + offset))

InNumericOrder(parsed) == sorted(pure_numeric_files(parsed), "value") \o SelectSeq(parsed, IsOtherItem)

MaxBatches == 2

MaxClock == 1

InitBatches ==
    /\ Scanned(<<Filler(1), Filler(2)>>)
    /\ logs = <<>>
    /\ clock = 0
    /\ folders = <<DirD>>
    /\ file_list = <<>>
    /\ preview_list = <<>>
    /\ tree = <<>>
    /\ strategy = "none"
    /\ var_recursive = FALSE
    /\ var_pad = <<"3">>
    /\ var_offset = <<"0">>
    /\ var_season = <<"1">>
    /\ var_move_season_folder = FALSE
    /\ var_sort_method = "name"
    /\ var_title = <<>>
    /\ var_include_episode_title = TRUE
    /\ var_dryrun = FALSE
    /\ var_conflict_suffix = <<"_", "d", "u", "p">>
    /\ pool = <<>>
    /\ debounce = FALSE
    /\ preview_pc = "idle"
    /\ nreq = [NoRequests EXCEPT !.scan = 1]
    /\ external = FALSE
    /\ faults = FALSE

NextBatches ==
    \/ nreq.execute < MaxBatches /\ execute_async(TRUE)
    \/ \E k \in DOMAIN pool : ExecBegin(k)
    \/ \E k \in DOMAIN pool : ExecEntry(k)
    \/ \E k \in DOMAIN pool : ExecWriteLog(k)
    \/ on_execute_done
    \/ \E f \in DOMAIN logs : nreq.undo < MaxUndo /\ undo_via_log(f)
    \/ \E k \in DOMAIN pool : UndoBegin(k)
    \/ \E k \in DOMAIN pool : UndoRecord(k)
    \/ \E k \in DOMAIN pool : UndoWriteLog(k)
    \/ on_undo_done
    \/ \E k \in DOMAIN pool : scan_task(k)
    \/ on_scan_done
    \/ clock < MaxClock /\ Tick

SpecBatches == InitBatches /\ [][NextBatches]_vars

(***************************************************************************)
(* Claims on the batches and their logs (SpecBatches)                      *)
(***************************************************************************)
\* the log file a started batch will write
LogOf(t) == IF t.kind = "execute" THEN t.log_file ELSE t.rollback_log

Started(k) == pool[k].kind \in {"execute", "undo"} /\ pool[k].pc # "queued"

\* C12: every rename batch and every undo batch writes a log file of its
\* own: the file a started batch will write is not one an earlier batch has
\* written, and no two started batches will write the same file
C12_OneLogPerBatch ==
    \A k \in DOMAIN pool :
        Started(k) =>
            /\ LogOf(pool[k]) \notin DOMAIN logs
            /\ \A j \in DOMAIN pool : j # k /\ Started(j) => LogOf(pool[j]) # LogOf(pool[k])

\* a step of a unit of work on the pool: a task advances, or ends and leaves
\* the pool (requests only append to the pool, callbacks leave it alone or
\* append to it)
WorkerStep == pool' # pool /\ Len(pool') <= Len(pool)

\* a callback of the coordinating context runs
CallbackStep == afterq # <<>> /\ afterq' = Tail(afterq)

\* C13: in every interleaving of the scan, rename and undo tasks with the
\* coordinating context, no step of a task writes the file list or the
\* preview list; a step that writes one of them is a callback run by the
\* coordinating context
C13_ListsWrittenByCallbacks ==
    [][/\ WorkerStep => file_list' = file_list /\ preview_list' = preview_list
       /\ file_list' # file_list \/ preview_list' # preview_list => CallbackStep]_vars

\* a rename batch has run and the scan its completion started has replaced
\* the file list, while an undo task is at work
C13_Witness ==
    /\ nreq.scan >= 2
    /\ file_list # <<>>
    /\ file_list[1] \notin {Filler(1), Filler(2)}
    /\ \E k \in DOMAIN pool : pool[k].kind = "undo" /\ pool[k].pc = "loop"

(***************************************************************************)
(* Specification SpecPadding: one preview pass over a few files under      *)
(* several titles, seasons, offsets and pad widths                         *)
(***************************************************************************)
Titles == {<<>>, <<"S", "e", "7", "e", "n">>}

PadWidths == {<<"2">>, <<"3">>, <<"4">>}

SeasonTexts == {<<>>, <<"2">>, <<"1", "0", "0", "1">>}

InitPadding ==
    /\ \E S \in SUBSET {1, 4} : Scanned(Pick(Catalogue, S) \o <<Filler(1)>>)
    /\ logs = <<>>
    /\ clock = 0
    /\ folders = <<DirD>>
    /\ file_list = <<>>
    /\ preview_list = <<>>
    /\ tree = <<>>
    /\ strategy = "none"
    /\ var_recursive = FALSE
    /\ var_pad \in PadWidths
    /\ var_offset \in {<<"0">>, <<"1", "0">>}
    /\ var_season \in SeasonTexts
    /\ var_move_season_folder = FALSE
    /\ var_sort_method = "name"
    /\ var_title \in Titles
    /\ var_include_episode_title = TRUE
    /\ var_dryrun = TRUE
    /\ var_conflict_suffix = <<"_", "d", "u", "p">>
    /\ pool = <<>>
    /\ debounce = FALSE
    /\ preview_pc = "idle"
    /\ nreq = [NoRequests EXCEPT !.scan = 1]
    /\ external = FALSE
    /\ faults = FALSE

NextPadding == on_scan_done

SpecPadding == InitPadding /\ [][NextPadding]_vars

(***************************************************************************)
(* Claims on the padding step (SpecPadding)                                *)
(***************************************************************************)
\* the name as rendered from the template, before the padding step
Rendered(x) ==
    WithEpisodeTitle(format_template(var_template, title_or_default(var_title), x.season, x.ep,
                                     splitext(basename(x.p))[2], basename(x.p)),
                     x.extra, var_include_episode_title)

\* where the episode marker of the default template stands in the rendered
\* name: after the title, the dot, the season marker and the season digits
EpisodeMarker(x) == Len(title_or_default(var_title)) + 2 + Len(FormatInt(x.season, 2)) + 1

\* the name r with the digit run after position e zero-filled to at least p
\* digits and every other character as in r
PaddedAt(r, e, p) ==
    SubSeq(r, 1, e)
    \o ZFill(SubSeq(r, e + 1, e + DigitRun(r, e + 1, Len(r))), p)
    \o SubSeq(r, e + 1 + DigitRun(r, e + 1, Len(r)), Len(r))

RECURSIVE PaddedNames(_, _)
PaddedNames(numbered, p) ==
    IF numbered = <<>> THEN <<>>
    ELSE <<PaddedAt(Rendered(Head(numbered)), EpisodeMarker(Head(numbered)), p)>> \o PaddedNames(Tail(numbered), p)

RECURSIVE NewNames(_)
NewNames(pl) == IF pl = <<>> THEN <<>> ELSE <<Head(pl).newname>> \o NewNames(Tail(pl))

\* C15: the padding step changes only the digits of the episode component of
\* a rendered name, the digit run after the episode marker, which it fills
\* with zeros on the left to at least the pad width; every other character,
\* the digits of the title and the season included, stays as rendered
C15_PadsEpisodeOnly ==
    strategy # "none" =>
        NewNames(preview_list) =
            PaddedNames(Numbering(parse_all(file_list, var_sort_method), season_val(var_season), IntVarGet(var_offset).val),
                        IntVarGet(var_pad).val)

(***************************************************************************)
(* SpecParse: parse_episode_info on one scanned file                       *)
(***************************************************************************)
\* what stands before the marker: nothing, a word, a standalone number, a
\* marker of rule 2; and an earlier marker of rule 1
PlainPrefixes == {<<>>, <<"a", ".">>, <<"1", "2", ".">>, <<"2", "x", "0", "5", ".">>}

MarkedPrefixes == {<<"S", "0", "3", "E", "0", "6", ".">>, <<"s", "1", "e", "2", "-">>}

\* [ ._-]? of rule 1: no separator or one of the four
OneSeparator == {<<>>, <<".">>, <<" ">>, <<"_">>, <<"-">>}

TwoSeparators == {<<" ", "-">>, <<".", ".">>}

Suffixes == {<<>>, <<".", "7", "2", "0", "p">>, <<".", "P", "i", "l", "o", "t">>}

\* the marker of season 3, episode 7 in its spellings
Marker37(seps) ==
    {s \o d \o sep \o e \o n : s \in {<<"S">>, <<"s">>}, d \in {<<"3">>, <<"0", "3">>}, sep \in seps,
                               e \in {<<"E">>, <<"e">>}, n \in {<<"7">>, <<"0", "7">>, <<"0", "0", "7">>}}

Named(prefixes, middles, suffixes) ==
    {a \o b \o c \o <<".", "m", "k", "v">> : a \in prefixes, b \in middles, c \in suffixes}

\* names whose leftmost marker of rule 1 is the one of season 3, episode 7
Names37 == Named(PlainPrefixes, Marker37(OneSeparator), Suffixes)

\* names where another marker of rule 1 stands before it
NamesLate37 == Named(MarkedPrefixes, Marker37(OneSeparator), Suffixes)

\* names with more than one separator character between the two parts
NamesApart37 == Named(PlainPrefixes, Marker37(TwoSeparators), Suffixes)

\* the localized season marker of season 2, with and without spaces
SeasonMarker2 == {<<CJK_DI, "2", CJK_SEASON>>, <<CJK_DI, " ", "2", " ", CJK_SEASON>>}

\* names with the season marker and no episode marker; some hold a
\* standalone number
SeasonOnlyNames ==
    Named({<<>>, <<"a", " ">>}, SeasonMarker2, {<<>>, <<" ", "1", "2">>, <<".", "1", "2", ".", "x">>})

\* names with the season marker and a localized episode marker
SeasonEpisodeNames ==
    Named({<<>>, <<"a", " ">>}, SeasonMarker2, {<<CJK_DI, "3", "<jii>">>, <<" ", CJK_DI, " ", "3", " ", "<hua>">>})

\* names for the other rules
OtherNames ==
    Named({<<>>, <<"2", "x", "0", "5", ".">>},
          {<<"S", "e", "a", "s", "o", "n", " ", "1", " ", "E", "p", "i", "s", "o", "d", "e", " ", "2">>,
           <<"E", "p", "i", "s", "o", "d", "e", ".", "4">>, <<CJK_DI, "3", "<hui>">>, <<"1", "2">>, <<"x">>},
          {<<>>})

ParseNames == Names37 \cup NamesLate37 \cup NamesApart37 \cup SeasonOnlyNames \cup SeasonEpisodeNames \cup OtherNames

InitParse ==
    /\ \E n \in ParseNames : Scanned(<<join(DirD, n)>>)
    /\ logs = <<>>
    /\ clock = 0
    /\ folders = <<DirD>>
    /\ file_list = <<>>
    /\ preview_list = <<>>
    /\ tree = <<>>
    /\ strategy = "none"
    /\ var_recursive = FALSE
    /\ var_pad = <<"3">>
    /\ var_offset = <<"0">>
    /\ var_season = <<"1">>
    /\ var_move_season_folder = FALSE
    /\ var_sort_method = "name"
    /\ var_title = <<>>
    /\ var_include_episode_title = TRUE
    /\ var_dryrun = TRUE
    /\ var_conflict_suffix = <<"_", "d", "u", "p">>
    /\ pool = <<>>
    /\ debounce = FALSE
    /\ preview_pc = "idle"
    /\ nreq = [NoRequests EXCEPT !.scan = 1]
    /\ external = FALSE
    /\ faults = FALSE

NextParse == on_scan_done

SpecParse == InitParse /\ [][NextParse]_vars

(***************************************************************************)
(* Claims on the parser (SpecParse)                                        *)
(***************************************************************************)
\* the first of the seven rules that finds a match in the name, 8 if none
FirstRule(name) ==
    CHOOSE r \in 1..8 : /\ r = 8 \/ search(r, name, 1).ok
                        /\ \A q \in 1..(r - 1) : ~search(q, name, 1).ok

\* what rule r alone returns for the name
ByRule(r, name) ==
    IF r = 8 THEN Parsed(None, None, <<>>)
    ELSE IF r = 4 THEN Result(name, SeasonThenEpisode(search(4, name, 1).episode, search(5, name, 1), name))
    ELSE Result(name, search(r, name, 1))

ParsedAs(f, season, episode) == parse_episode_info(f).season = season /\ parse_episode_info(f).episode = episode

\* the scanned file of the pass
ParsedFile == basename(file_list[1])

\* C16 as stated: every name that contains the marker of season 3, episode 7
\* (any letter case, no or one separator) parses to season 3, episode 7
C16_AnyMarker37 ==
    strategy # "none" /\ ParsedFile \in Names37 \cup NamesLate37 => ParsedAs(ParsedFile, 3, 7)

\* C16: the parser returns what the first matching rule of the seven returns;
\* a name whose leftmost S<season>E<episode> marker (any letter case, at most
\* one separator character between the parts) is the one of season 3,
\* episode 7 parses to season 3, episode 7; a name with the localized season
\* marker and no episode marker parses to that season with no episode, also
\* when it holds a standalone number
C16_FirstRuleWins ==
    strategy # "none" =>
        /\ parse_episode_info(ParsedFile) = ByRule(FirstRule(splitext(ParsedFile)[1]), splitext(ParsedFile)[1])
        /\ ParsedFile \in Names37 => ParsedAs(ParsedFile, 3, 7)
        /\ ParsedFile \in SeasonOnlyNames => ParsedAs(ParsedFile, 2, None)

\* the pass has parsed "2x05.s03_e007.Pilot.mkv": rule 2 matches earlier in
\* the name, rule 1 is tried first
C16_Witness ==
    /\ strategy # "none"
    /\ ParsedFile = <<"2", "x", "0", "5", ".", "s", "0", "3", "_", "e", "0", "0", "7", ".", "P", "i", "l", "o", "t", ".", "m", "k", "v">>
    /\ ParsedAs(ParsedFile, 3, 7)

(***************************************************************************)
(* SpecRace: a rename batch is requested and preview passes run while its  *)
(* task waits for a worker or runs                                         *)
(***************************************************************************)
MaxRacePreview == 2

MaxRaceExecute == 1

MaxRaceScan == 2

InitRace ==
    /\ \E S \in SUBSET {1, 4} : Scanned(Pick(Catalogue, S) \o <<Filler(1)>>)
    /\ logs = <<>>
    /\ clock = 0
    /\ folders = <<DirD>>
    /\ file_list = <<>>
    /\ preview_list = <<>>
    /\ tree = <<>>
    /\ strategy = "none"
    /\ var_recursive = FALSE
    /\ var_pad = <<"3">>
    /\ var_offset = <<"0">>
    /\ var_season = <<"1">>
    /\ var_move_season_folder = FALSE
    /\ var_sort_method = "name"
    /\ var_title = <<>>
    /\ var_include_episode_title = TRUE
    /\ var_dryrun = FALSE
    /\ var_conflict_suffix = <<"_", "d", "u", "p">>
    /\ pool = <<>>
    /\ debounce = FALSE
    /\ preview_pc = "idle"
    /\ nreq = [NoRequests EXCEPT !.scan = 1]
    /\ external = FALSE
    /\ faults = FALSE

\* the coordinating context handles one event at a time: a button or a
\* callback is served when preview() is not running
NextRace ==
    \/ on_scan_done_begin
    \/ nreq.preview < MaxRacePreview /\ preview_begin
    \/ preview_append
    \/ preview_end
    \/ preview_pc = "idle" /\ nreq.execute < MaxRaceExecute /\ execute_async(TRUE)
    \/ \E k \in DOMAIN pool : ExecBegin(k)
    \/ \E k \in DOMAIN pool : ExecEntry(k)
    \/ \E k \in DOMAIN pool : ExecWriteLog(k)
    \/ preview_pc = "idle" /\ nreq.scan < MaxRaceScan /\ on_execute_done
    \/ \E k \in DOMAIN pool : scan_task(k)

SpecRace == InitRace /\ [][NextRace]_vars

(***************************************************************************)
(* Claims on the snapshot of the preview list (SpecRace)                   *)
(***************************************************************************)
\* C18: the list a rename batch copies when its task starts is the list one
\* complete preview pass over the file list has left, never an empty or a
\* partly rebuilt one
C18_SnapshotIsCompletePass ==
    [][\A k \in DOMAIN pool :
        (pool[k].kind = "execute" /\ pool[k].pc = "queued" /\ Len(pool') = Len(pool) /\ pool'[k].pc = "loop") =>
            /\ pool'[k].items # <<>>
            /\ pool'[k].items = PreviewEntries(parse_all(file_list, var_sort_method), var_season,
                                               IntVarGet(var_offset).val, IntVarGet(var_pad).val,
                                               var_include_episode_title)
      ]_vars

(***************************************************************************)
(* SpecScans: folders are added and removed, every change requests a scan, *)
(* and the scans run on the workers side by side                           *)
(***************************************************************************)
MaxFolderScans == 3

ScanFiles == {Catalogue[1], Catalogue[4], Catalogue[5], join(<< <<"d">>, <<"sub">> >>, <<"9", ".", "m", "k", "v">>)}

InitScans ==
    /\ disk = [p \in ScanFiles |-> p]
    /\ logs = <<>>
    /\ clock = 0
    /\ folders = <<>>
    /\ file_list = <<>>
    /\ preview_list = <<>>
    /\ tree = <<>>
    /\ strategy = "none"
    /\ var_recursive \in BOOLEAN
    /\ var_pad = <<"3">>
    /\ var_offset = <<"0">>
    /\ var_season = <<"1">>
    /\ var_move_season_folder = FALSE
    /\ var_sort_method = "name"
    /\ var_title = <<>>
    /\ var_include_episode_title = TRUE
    /\ var_dryrun = TRUE
    /\ var_conflict_suffix = <<"_", "d", "u", "p">>
    /\ pool = <<>>
    /\ afterq = <<>>
    /\ debounce = FALSE
    /\ preview_pc = "idle"
    /\ nreq = NoRequests
    /\ external = FALSE
    /\ faults = FALSE

NextScans ==
    \/ \E path \in {DirD, DirE} : nreq.scan < MaxFolderScans /\ add_folder(path)
    \/ \E idx \in DOMAIN folders : nreq.scan < MaxFolderScans /\ remove_selected_folder(idx)
    \/ nreq.scan < MaxFolderScans /\ scan_async
    \/ \E k \in DOMAIN pool : scan_begin(k)
    \/ \E k \in DOMAIN pool : scan_end(k)
    \/ on_scan_done
    \/ debounced_preview

SpecScans == InitScans /\ [][NextScans]_vars

(***************************************************************************)
(* Claims on the scans (SpecScans)                                         *)
(***************************************************************************)
\* every requested scan has run and its result has been delivered
AllScansDelivered ==
    /\ nreq.scan >= 1
    /\ \A k \in DOMAIN pool : pool[k].kind # "scan"
    /\ Posted("_on_scan_done") = {}

\* C19: once every requested scan has been delivered, the file list is the
\* scan result for the folders and the recursive option as they are since the
\* last request: the result of an earlier scan is never installed after the
\* result of a later one
C19_LastRequestWins ==
    AllScansDelivered => file_list = files_sorted(Walk(disk, folders, var_recursive, {}))

====
